---- MODULE Spec2Model ----
(***************************************************************************)
(* A model of the sandboxed filesystem service: the path sandbox, the      *)
(* file-content cache, the metadata store with its indexer and the         *)
(* ignore-pattern matcher, and the polling watcher.                        *)
(*                                                                         *)
(* Strings are sequences of one-character strings, so that str.startswith, *)
(* str.split and the SQL LIKE operator are computed character by           *)
(* character.  File contents are sequences of Unicode code points, so that *)
(* len(content.encode('utf-8')) is computed from the UTF-8 length of each  *)
(* code point.  Timestamps are integers read from one non-decreasing       *)
(* clock, now.                                                             *)
(*                                                                         *)
(* Each component has a specification of its own (SpecCache, ...): its     *)
(* Init fixes every variable, its Next moves the variables of the          *)
(* component and leaves the others unchanged.                              *)
(***************************************************************************)
EXTENDS Integers, Sequences, FiniteSets, TLC

VARIABLES
    now,                \* the wall clock, datetime.now()
    file_cache,         \* main.py file_cache: the dict, in insertion order
    file_cache_size,    \* main.py file_cache_size: the size counter
    last_cache_cleanup, \* main.py last_cache_cleanup
    cache_ret,          \* the last cache call: its path, the branch it took
                        \* (a stale or missing entry both return None), the
                        \* content returned and the keys it removed
    put_log,            \* per path, the (content, mtime) of the accepted put
                        \* whose entry is still the one cached
    links,              \* the symbolic links on disk: link path -> target
    path_memo,          \* the lru_cache of normalize_path: argument -> result
    path_ret,           \* the last normalize_path call and its outcome
    fs,                 \* the disk: path -> kind (none, file, dir), mtime, size
    db,                 \* the file_metadata table: path -> row
    store_ret,          \* the last call a client made to the store, what it
                        \* returned and the disk as it was then
    watched_directories,    \* watcher.py watched_directories
    last_scan_times,        \* watcher.py last_scan_times
    modified_paths,         \* watcher.py modified_paths
    path_change_queue,      \* watcher.py path_change_queue
    watcher_running,        \* watcher.py watcher_running
    loop,               \* the _watcher_loop task: the await it is at, and
                        \* stats["cycles"] modulo SCAN_EVERY
    scan_task,          \* per directory, the delayed_recursive_scan task:
                        \* none, pending, or sleeping with the lock held
    owed,               \* per file, how far a notification has come: 0 none,
                        \* 1 notified, 2 a cycle has begun since
    search,             \* a client paging through search_metadata
    life,               \* the watcher's tasks and the calls that start and
                        \* stop them, each at one of its awaits
    sess,               \* the file_metadata table as concurrent sessions
                        \* write it
    fileop,             \* the files the handlers of main.py read and write
    matcher,            \* the ignore file the matcher loaded, and its last answer
    default_matcher,    \* ignore_patterns.py _default_matcher: its ignore file
                        \* on disk, the patterns it holds and its last answer
    indexing            \* watcher.py indexing_locks for one directory, and the
                        \* tasks that index the directory recursively

cacheVars == <<file_cache, file_cache_size, last_cache_cleanup, cache_ret, put_log>>
pathVars == <<links, path_memo, path_ret>>
storeVars == <<fs, db, store_ret>>
watcherVars == <<watched_directories, last_scan_times, modified_paths, path_change_queue,
                 watcher_running, loop, scan_task, owed>>
moreVars == <<search, life, sess, fileop, matcher, default_matcher, indexing>>
notSearchVars == <<cacheVars, pathVars, storeVars, watcherVars, life, sess, fileop, matcher, default_matcher, indexing>>
notSessVars == <<cacheVars, pathVars, storeVars, watcherVars, search, life, fileop, matcher, default_matcher, indexing>>
notFileVars == <<cacheVars, storeVars, watcherVars, search, life, sess, matcher, default_matcher, indexing>>
notMatcherVars == <<cacheVars, pathVars, storeVars, watcherVars, search, life, sess, fileop, default_matcher, indexing>>
notLoadVars == <<cacheVars, pathVars, storeVars, watcherVars, search, life, sess, fileop, matcher, indexing>>
notIndexingVars == <<cacheVars, pathVars, storeVars, watcherVars, search, life, sess, fileop, matcher, default_matcher>>
notLifeVars == <<cacheVars, pathVars, storeVars, watcherVars, search, sess, fileop, matcher, default_matcher, indexing>>
notCacheVars == <<pathVars, storeVars, watcherVars, moreVars>>
notPathVars == <<cacheVars, storeVars, watcherVars, moreVars>>
notStoreVars == <<cacheVars, pathVars, watcherVars, moreVars>>
vars == <<now, cacheVars, pathVars, storeVars, watcherVars, moreVars>>

(***************************************************************************)
(* Strings                                                                 *)
(***************************************************************************)

\* str.startswith(prefix)
StartsWith(s, prefix) ==
    /\ Len(prefix) <= Len(s)
    /\ \A i \in 1..Len(prefix) : s[i] = prefix[i]

\* q lies beneath the directory d
Beneath(q, d) == StartsWith(q, d \o <<"/">>)

\* put_log's record of a path with no accepted put still cached
NoPut == [set |-> FALSE, content |-> <<>>, mtime |-> 0]

(***************************************************************************)
(* Bounds of the model                                                     *)
(***************************************************************************)

MaxTime == 1        \* the clock stops ticking here
MaxAccess == 2      \* a hit is taken only while access_count is below this

(***************************************************************************)
(* Content cache (src/core/main.py)                                        *)
(***************************************************************************)

\* The program's limits, scaled down: 100 entries, 100 MB and 10 MB in the
\* source.  The order FILE_CACHE_ENTRY_MAX_SIZE <= FILE_CACHE_MAX_SIZE is kept.
FILE_CACHE_MAX_ENTRIES == 2
FILE_CACHE_MAX_SIZE == 3
FILE_CACHE_ENTRY_MAX_SIZE == 2
CACHE_CLEANUP_INTERVAL == 1     \* 300 s in the source
CACHE_STALE_AFTER == 1          \* 3600 s in the source

\* The cache keys of the model: /a/b, /a/b/c beneath it, and /a/bc, which
\* shares its string prefix.
CachePaths ==
    { <<"/", "a", "/", "b">>,
      <<"/", "a", "/", "b", "/", "c">>,
      <<"/", "a", "/", "b", "c">> }

\* File contents: 'a' (1 byte), U+00E9 (2 bytes), and U+00E9 twice (4 bytes,
\* 2 characters).
Contents == { <<97>>, <<233>>, <<233, 233>> }

\* The modification times files have
Mtimes == {1, 2}

\* The number of bytes of one code point in UTF-8.
Utf8Len(cp) ==
    IF cp < 128 THEN 1 ELSE IF cp < 2048 THEN 2 ELSE IF cp < 65536 THEN 3 ELSE 4

RECURSIVE EncodedSize(_)
\* len(content.encode('utf-8'))
EncodedSize(content) ==
    IF content = <<>> THEN 0
    ELSE Utf8Len(Head(content)) + EncodedSize(Tail(content))

CacheKeys(fc) == { fc[i].path : i \in DOMAIN fc }

CacheEntry(fc, p) == fc[CHOOSE i \in DOMAIN fc : fc[i].path = p]

\* del file_cache[p]
CacheDel(fc, p) == SelectSeq(fc, LAMBDA e : e.path # p)

\* file_cache[p] = e: a key already present keeps its place in the dict
CacheSet(fc, e) ==
    IF e.path \in CacheKeys(fc)
    THEN [i \in DOMAIN fc |-> IF fc[i].path = e.path THEN e ELSE fc[i]]
    ELSE Append(fc, e)

RECURSIVE SumSizes(_)
SumSizes(fc) == IF fc = <<>> THEN 0 ELSE Head(fc).size + SumSizes(Tail(fc))

\* What cleanup_cache finds on disk for a cached path: the file is gone, its
\* stat fails, or it has this modification time.
DiskObs ==
    { [state |-> "gone", mtime |-> 0], [state |-> "error", mtime |-> 0] }
        \cup { [state |-> "file", mtime |-> m] : m \in Mtimes }

\* The test of one entry with the staleness window left out
CleanupRemovesNeverStale(e, t, seen) ==
    \/ seen.state = "gone"
    \/ seen.state = "error"
    \/ (seen.state = "file" /\ seen.mtime > e.modified_time)

\* cleanup_cache's test of one entry
CleanupRemoves(e, t, seen) ==
    \/ seen.state = "gone"
    \/ seen.state = "error"
    \/ (seen.state = "file" /\ seen.mtime > e.modified_time)
    \/ t - e.last_access > CACHE_STALE_AFTER

\* cleanup_cache on the cache state cs = [fc, size, last], at time t, with the
\* disk as observed.
CleanupCache(cs, t, disk) ==
    IF t - cs.last < CACHE_CLEANUP_INTERVAL THEN cs
    ELSE LET keep == SelectSeq(cs.fc, LAMBDA e : ~CleanupRemoves(e, t, disk[e.path]))
             gone == SelectSeq(cs.fc, LAMBDA e : CleanupRemoves(e, t, disk[e.path]))
         IN  [fc |-> keep, size |-> cs.size - SumSizes(gone), last |-> t]

\* The eviction key (now - last_access) * (1 / access_count) of entry a is
\* below that of entry b; compared by cross-multiplication.
ScoreLess(a, b, t) ==
    (t - a.last_access) * b.access_count < (t - b.last_access) * a.access_count

\* min(file_cache.items(), key=...): the first entry of the least score
OldestIndex(fc, t) ==
    CHOOSE i \in DOMAIN fc :
        /\ \A j \in DOMAIN fc : ~ScoreLess(fc[j], fc[i], t)
        /\ \A j \in 1..(i - 1) : ScoreLess(fc[i], fc[j], t)

\* CacheFull with the entry count compared by > instead of >=
CacheFullOffByOne(cs, content_size) ==
    /\ \/ Len(cs.fc) > FILE_CACHE_MAX_ENTRIES
       \/ cs.size + content_size > FILE_CACHE_MAX_SIZE
    /\ cs.fc # <<>>

\* The guard of add_to_file_cache's eviction loop
CacheFull(cs, content_size) ==
    /\ \/ Len(cs.fc) >= FILE_CACHE_MAX_ENTRIES
       \/ cs.size + content_size > FILE_CACHE_MAX_SIZE
    /\ cs.fc # <<>>

RECURSIVE EvictLoop(_, _, _)
EvictLoop(cs, content_size, t) ==
    IF ~CacheFull(cs, content_size) THEN cs
    ELSE LET victim == cs.fc[OldestIndex(cs.fc, t)]
         IN  EvictLoop([cs EXCEPT !.fc = CacheDel(cs.fc, victim.path),
                                  !.size = cs.size - victim.size],
                       content_size, t)

\* The entry add_to_file_cache stores
NewEntry(p, content, mtime, t) ==
    [path |-> p, content |-> content, modified_time |-> mtime,
     last_access |-> t, size |-> EncodedSize(content), access_count |-> 1]

\* Oversized with the size counted in characters, not in bytes
OversizedInChars(content) == Len(content) > FILE_CACHE_ENTRY_MAX_SIZE

\* content too large for the cache
Oversized(content) == EncodedSize(content) > FILE_CACHE_ENTRY_MAX_SIZE

CacheState == [fc |-> file_cache, size |-> file_cache_size, last |-> last_cache_cleanup]

\* put_log after a call: a path whose entry the call removed loses its record
LogAfter(fc2) == [q \in CachePaths |-> IF q \in CacheKeys(fc2) THEN put_log[q] ELSE NoPut]

AddToFileCache(p, content, mtime, disk) ==
    IF Oversized(content)
    THEN /\ cache_ret' = [op |-> "add", path |-> p, kind |-> "False", val |-> <<>>, removed |-> <<>>]
         /\ UNCHANGED <<now, file_cache, file_cache_size, last_cache_cleanup, put_log>>
    ELSE LET cleaned == CleanupCache(CacheState, now, disk)
             room == EvictLoop(cleaned, EncodedSize(content), now)
         IN  /\ file_cache' = CacheSet(room.fc, NewEntry(p, content, mtime, now))
             /\ file_cache_size' = room.size + EncodedSize(content)
             /\ last_cache_cleanup' = room.last
             /\ cache_ret' = [op |-> "add", path |-> p, kind |-> "True", val |-> <<>>, removed |-> <<>>]
             /\ put_log' = [LogAfter(room.fc) EXCEPT ![p] = [set |-> TRUE, content |-> content, mtime |-> mtime]]
             /\ UNCHANGED now

\* IsFresh with the comparison made strict
IsFreshStrict(e, mtime) == e.modified_time > mtime

\* the test of get_from_file_cache: the cached entry is still fresh
IsFresh(e, mtime) == e.modified_time >= mtime

GetFromFileCache(p, mtime) ==
    IF p \in CacheKeys(file_cache)
    THEN LET e == CacheEntry(file_cache, p)
         IN  IF IsFresh(e, mtime)
             THEN /\ e.access_count < MaxAccess
                  /\ file_cache' = CacheSet(file_cache,
                         [e EXCEPT !.last_access = now,
                                   !.access_count = e.access_count + 1])
                  /\ cache_ret' = [op |-> "get", path |-> p, kind |-> "hit", val |-> e.content, removed |-> <<>>]
                  /\ UNCHANGED <<now, file_cache_size, last_cache_cleanup, put_log>>
             ELSE /\ file_cache' = CacheDel(file_cache, p)
                  /\ file_cache_size' = file_cache_size - e.size
                  /\ cache_ret' = [op |-> "get", path |-> p, kind |-> "stale", val |-> <<>>, removed |-> <<p>>]
                  /\ put_log' = LogAfter(CacheDel(file_cache, p))
                  /\ UNCHANGED <<now, last_cache_cleanup>>
    ELSE /\ cache_ret' = [op |-> "get", path |-> p, kind |-> "miss", val |-> <<>>, removed |-> <<>>]
         /\ UNCHANGED <<now, file_cache, file_cache_size, last_cache_cleanup, put_log>>

\* Invalidated with the prefix taken without the trailing slash
InvalidatedByBarePrefix(key, p) == key = p \/ StartsWith(key, p)

\* the keys invalidate_cache_for_path(p) removes
Invalidated(key, p) == key = p \/ StartsWith(key, p \o <<"/">>)

InvalidateCacheForPath(p) ==
    LET keep == SelectSeq(file_cache, LAMBDA e : ~Invalidated(e.path, p))
        gone == SelectSeq(file_cache, LAMBDA e : Invalidated(e.path, p))
    IN  /\ file_cache' = keep
        /\ file_cache_size' = file_cache_size - SumSizes(gone)
        /\ cache_ret' = [op |-> "invalidate", path |-> p, kind |-> "None", val |-> <<>>,
                        removed |-> [i \in DOMAIN gone |-> gone[i].path]]
        /\ put_log' = LogAfter(keep)
        /\ UNCHANGED <<now, last_cache_cleanup>>

Tick ==
    /\ now < MaxTime
    /\ now' = now + 1
    /\ UNCHANGED <<cacheVars, notCacheVars>>

CacheInit ==
    /\ file_cache = <<>>
    /\ file_cache_size = 0
    /\ last_cache_cleanup = 0
    /\ cache_ret = [op |-> "none", path |-> <<>>, kind |-> "None", val |-> <<>>,
                    removed |-> <<>>]
    /\ put_log = [q \in CachePaths |-> NoPut]

\* cleanup_cache reads the disk only when it is due, and only for cached paths
CleanupDue(content) ==
    /\ ~Oversized(content)
    /\ now - last_cache_cleanup >= CACHE_CLEANUP_INTERVAL

\* What Path.exists() and Path.stat() can make of a cached path: the views of
\* DiskObs, or exists() itself raising PermissionError ("denied"), which
\* pathlib does for a path below a directory that may not be searched.
ExistsObs == DiskObs \cup { [state |-> "denied", mtime |-> 0] }

\* The pass is due and exists() raises for some entry: the exception leaves
\* cleanup_cache before the loop that removes entries.
CleanupRaises(disk) ==
    /\ now - last_cache_cleanup >= CACHE_CLEANUP_INTERVAL
    /\ \E i \in DOMAIN file_cache : disk[file_cache[i].path].state = "denied"

\* cleanup_cache() called on its own, with the disk as it finds it
CleanupCacheCall(disk) ==
    LET c == IF CleanupRaises(disk)
             THEN [CacheState EXCEPT !.last = now]
             ELSE CleanupCache(CacheState, now, disk)
        gone == SelectSeq(file_cache, LAMBDA e : e.path \notin CacheKeys(c.fc))
    IN  /\ file_cache' = c.fc
        /\ file_cache_size' = c.size
        /\ last_cache_cleanup' = c.last
        /\ cache_ret' = [op |-> "cleanup", path |-> <<>>,
                         kind |-> IF now - last_cache_cleanup < CACHE_CLEANUP_INTERVAL
                                  THEN "skipped"
                                  ELSE IF CleanupRaises(disk) THEN "PermissionError"
                                  ELSE "scanned",
                         val |-> <<>>, removed |-> [i \in DOMAIN gone |-> gone[i].path]]
        /\ put_log' = LogAfter(c.fc)
        /\ UNCHANGED now

DiskViews(content) ==
    IF CleanupDue(content)
    THEN [CacheKeys(file_cache) -> DiskObs]
    ELSE { [q \in CacheKeys(file_cache) |-> [state |-> "file", mtime |-> 1]] }

\* The calls a client makes, with arguments drawn from the given sets
CacheAdd(paths, contents, mtimes) ==
    /\ \E p \in paths, c \in contents, m \in mtimes :
           \E disk \in DiskViews(c) : AddToFileCache(p, c, m, disk)
    /\ UNCHANGED notCacheVars

CacheGet(paths, mtimes) ==
    /\ \E p \in paths, m \in mtimes : GetFromFileCache(p, m)
    /\ UNCHANGED notCacheVars

CacheInvalidate(paths) ==
    /\ \E p \in paths : InvalidateCacheForPath(p)
    /\ UNCHANGED notCacheVars

(***************************************************************************)
(* Path sandbox (src/core/main.py)                                         *)
(***************************************************************************)

\* ALLOWED_DIRECTORIES: two roots, as in the source
ALLOWED_DIRECTORIES == << <<"/", "r">>, <<"/", "t">> >>

\* $HOME and the working directory of the service
HOME == <<"/", "r", "/", "h">>
CWD == <<"/", "o">>

\* The one path of the model that may be a symbolic link, and the targets an
\* administrator may give it: a sibling inside the root (relative), a directory
\* outside every root (absolute), and itself (a loop).  The empty target
\* stands for "not a link".
LinkPath == << <<"r">>, <<"s">> >>
LinkTargets == { <<"d">>, <<"/", "o">>, <<"s">> }
NoLink == <<>>

\* The arguments normalize_path is called with
PathArgs ==
    { <<"/", "r">>, <<"/", "r", "/", "f">>, <<"/", "r", "x">>, <<"/", "r", "/", ".", ".", "/", "o">>, <<"/", "r", "/", "s", "/", "f">>, <<"/", "r", "/", "s", "/", ".", ".", "/", "f">>,
      <<"~", "/", "f">>, <<".", ".", "/", "r", "/", ".", "/", "f">>, <<"/", "t", "/", "/", "f", "/">> }

\* os.path.expanduser, for the current user
ExpandUser(s) ==
    IF s # <<>> /\ s[1] = "~" /\ (Len(s) = 1 \/ s[2] = "/")
    THEN HOME \o SubSeq(s, 2, Len(s))
    ELSE s

IsAbs(s) == s # <<>> /\ s[1] = "/"

RECURSIVE Segments(_, _)
\* s.split('/'), with cur the segment being read
Segments(s, cur) ==
    IF s = <<>> THEN <<cur>>
    ELSE IF Head(s) = "/" THEN <<cur>> \o Segments(Tail(s), <<>>)
    ELSE Segments(Tail(s), Append(cur, Head(s)))

\* The components of a path string: empty segments and '.' are dropped
Parts(s) == SelectSeq(Segments(s, <<>>), LAMBDA g : g # <<>> /\ g # <<".">>)

RECURSIVE JoinParts(_)
JoinParts(parts) ==
    IF parts = <<>> THEN <<>>
    ELSE <<"/">> \o Head(parts) \o JoinParts(Tail(parts))

\* str() of an absolute path given by its components
PathStr(parts) == IF parts = <<>> THEN <<"/">> ELSE JoinParts(parts)

ButLast(q) == IF q = <<>> THEN <<>> ELSE SubSeq(q, 1, Len(q) - 1)

IsLink(parts, lk) == parts \in DOMAIN lk /\ lk[parts] # NoLink

RECURSIVE JoinRealPath(_, _, _, _)
\* posixpath._joinrealpath, not strict: path is the resolved prefix, rest the
\* components still to be read, resolving the links being followed.  A '..'
\* drops the last resolved component, a link is replaced by its resolved
\* target, and a link met while it is being resolved is a loop.
JoinRealPath(path, rest, lk, resolving) ==
    IF rest = <<>> THEN [ok |-> TRUE, path |-> path]
    ELSE LET name == Head(rest)
             newpath == Append(path, name)
         IN  IF name = <<".", ".">> THEN JoinRealPath(ButLast(path), Tail(rest), lk, resolving)
             ELSE IF ~IsLink(newpath, lk)
                  THEN JoinRealPath(newpath, Tail(rest), lk, resolving)
             ELSE IF newpath \in resolving
                  THEN [ok |-> FALSE, path |-> newpath \o Tail(rest)]
             ELSE LET target == lk[newpath]
                      r == JoinRealPath(IF IsAbs(target) THEN <<>> ELSE path,
                                        Parts(target), lk, resolving \cup {newpath})
                  IN  IF r.ok THEN JoinRealPath(r.path, Tail(rest), lk, resolving)
                      ELSE [ok |-> FALSE, path |-> r.path \o Tail(rest)]

RECURSIVE NormParts(_, _)
\* os.path.normpath on components: a '..' drops the component before it
NormParts(done, rest) ==
    IF rest = <<>> THEN done
    ELSE IF Head(rest) = <<".", ".">> THEN NormParts(ButLast(done), Tail(rest))
    ELSE NormParts(Append(done, Head(rest)), Tail(rest))

\* pathlib.Path(s).resolve(): a relative path starts from the working
\* directory.  When realpath meets a loop it returns the path it has, the
\* rest unresolved, normalised by abspath; resolve() then calls stat on it
\* and raises RuntimeError (ok = FALSE) if that path still runs into the loop.
Resolve(s, lk) ==
    LET r == JoinRealPath(<<>>, (IF IsAbs(s) THEN <<>> ELSE Parts(CWD)) \o Parts(s), lk, {})
        n == NormParts(<<>>, r.path)
    IN  IF r.ok THEN r
        ELSE [ok |-> JoinRealPath(<<>>, n, lk, {}).ok, path |-> n]

\* The links at import time, when ALLOWED_PATHS is computed
NoLinks == [l \in {LinkPath} |-> NoLink]

ALLOWED_PATHS ==
    [i \in DOMAIN ALLOWED_DIRECTORIES |-> Resolve(ALLOWED_DIRECTORIES[i], NoLinks).path]

\* RelativeTo by comparing the strings, not the components
RelativeToByString(parts, other) == StartsWith(PathStr(parts), PathStr(other))

\* PurePath.relative_to(other) does not raise: other's components are a
\* prefix of the path's components
RelativeTo(parts, other) ==
    /\ Len(other) <= Len(parts)
    /\ SubSeq(parts, 1, Len(other)) = other

\* normalize_path without its memo: the resolved path, a 403, or the
\* RuntimeError of a symlink loop (which the handlers turn into a 500)
NormalizeUncached(p, lk) ==
    LET r == Resolve(ExpandUser(p), lk)
    IN  IF ~r.ok THEN [kind |-> "RuntimeError", path |-> <<>>]
        ELSE IF \E i \in DOMAIN ALLOWED_PATHS : RelativeTo(r.path, ALLOWED_PATHS[i])
             THEN [kind |-> "path", path |-> PathStr(r.path)]
        ELSE [kind |-> "403", path |-> <<>>]

NoMemo == <<>>

\* normalize_path behind functools.lru_cache: a memoized argument is answered
\* from the memo, and only a call that returns is memoized
NormalizePath(p) ==
    IF path_memo[p] # NoMemo
    THEN /\ path_ret' = [arg |-> p, kind |-> "path", path |-> path_memo[p], memo |-> TRUE]
         /\ UNCHANGED <<links, path_memo>>
    ELSE LET r == NormalizeUncached(p, links)
         IN  /\ path_ret' = [arg |-> p, kind |-> r.kind, path |-> r.path, memo |-> FALSE]
             /\ path_memo' = IF r.kind = "path" THEN [path_memo EXCEPT ![p] = r.path]
                             ELSE path_memo
             /\ UNCHANGED links

\* normalize_path.cache_clear(), called after a move and at shutdown
CacheClear ==
    /\ path_memo' = [p \in PathArgs |-> NoMemo]
    /\ UNCHANGED <<links, path_ret>>

\* Someone with access to the disk makes the link, retargets it or removes it
Relink(target) ==
    /\ links[LinkPath] # target
    /\ links' = [links EXCEPT ![LinkPath] = target]
    /\ UNCHANGED <<path_memo, path_ret>>

PathInit ==
    /\ links = NoLinks
    /\ path_memo = [p \in PathArgs |-> NoMemo]
    /\ path_ret = [arg |-> <<>>, kind |-> "none", path |-> <<>>, memo |-> FALSE]

NormalizeAny == (\E p \in PathArgs : NormalizePath(p)) /\ UNCHANGED <<now, notPathVars>>
RelinkAny == (\E t \in LinkTargets \cup {NoLink} : Relink(t)) /\ UNCHANGED <<now, notPathVars>>
ClearMemo == CacheClear /\ UNCHANGED <<now, notPathVars>>
(***************************************************************************)
(* Ignore patterns (src/utils/ignore_patterns.py)                          *)
(***************************************************************************)

\* IgnorePatternMatcher.common_ignored_dirs
common_ignored_dirs ==
    << <<"n", "o", "d", "e", "_", "m", "o", "d", "u", "l", "e", "s">>, <<".", "g", "i", "t">>, <<".", "s", "v", "n">>, <<".", "h", "g">>, <<"_", "_", "p", "y", "c", "a", "c", "h", "e", "_", "_">>, <<".", "v", "s">>,
       <<".", "v", "s", "c", "o", "d", "e">>, <<"b", "i", "n">>, <<"o", "b", "j">>, <<"b", "u", "i", "l", "d">>, <<"d", "i", "s", "t">>, <<"o", "u", "t">> >>

\* The lines of the ignore file: a comment, a pattern that ignores every path
\* named l, and a negation that exempts l/k
IgnoreFileLines == << <<"#", " ", "l", "o", "g", "s">>, <<"*", "/", "l">>, <<"!", "*", "/", "l", "/", "k">> >>

SeqToSet(q) == { q[i] : i \in DOMAIN q }

EndsWith(s, suffix) ==
    /\ Len(suffix) <= Len(s)
    /\ SubSeq(s, Len(s) - Len(suffix) + 1, Len(s)) = suffix

\* sub in s
Contains(s, sub) ==
    \E i \in 1..(Len(s) - Len(sub) + 1) : SubSeq(s, i, i + Len(sub) - 1) = sub

RECURSIVE FnMatch(_, _)
\* fnmatch.fnmatch(s, pat) on POSIX: '*' matches any run of characters, '/'
\* included, '?' matches one character, any other character matches itself
FnMatch(s, pat) ==
    IF pat = <<>> THEN s = <<>>
    ELSE IF Head(pat) = "*"
         THEN \/ FnMatch(s, Tail(pat))
              \/ (s # <<>> /\ FnMatch(Tail(s), pat))
    ELSE /\ s # <<>>
         /\ (Head(pat) = "?" \/ Head(pat) = Head(s))
         /\ FnMatch(Tail(s), Tail(pat))

RECURSIVE CommonPatterns(_)
\* load_patterns: the two patterns added for each common directory
CommonPatterns(dirs) ==
    IF dirs = <<>> THEN <<>>
    ELSE << <<"*", "*", "/">> \o Head(dirs) \o <<"/", "*", "*">>, <<"*", "*", "/">> \o Head(dirs) \o <<"/">> >>
            \o CommonPatterns(Tail(dirs))

RECURSIVE AddLines(_, _)
\* load_patterns: the lines of the file, comments and duplicates skipped; a
\* line ending in '/' also adds the pattern of everything beneath it
AddLines(pats, lines) ==
    IF lines = <<>> THEN pats
    ELSE LET line == Head(lines)
         IN  IF line = <<>> \/ Head(line) = "#" \/ line \in SeqToSet(pats)
             THEN AddLines(pats, Tail(lines))
             ELSE LET dir_pattern == <<"*", "*", "/">> \o ButLast(line) \o <<"/", "*", "*">>
                      with_line == Append(pats, line)
                  IN  AddLines(IF EndsWith(line, <<"/">>) /\ dir_pattern \notin SeqToSet(with_line)
                               THEN Append(with_line, dir_pattern)
                               ELSE with_line,
                               Tail(lines))

\* IgnorePatternMatcher.patterns after load_patterns
patterns == AddLines(CommonPatterns(common_ignored_dirs), IgnoreFileLines)

IsNegation(pat) == pat # <<>> /\ Head(pat) = "!"

\* The ancestors-or-self of a path string, as should_ignore builds them from
\* path.parts: "/", "/r", "/r/s", ...
PartialPaths(s) ==
    { <<"/">> } \cup { PathStr(SubSeq(Parts(s), 1, i)) : i \in 1..Len(Parts(s)) }

\* should_ignore with the last matching line of the file deciding
ShouldIgnoreInFileOrder(pats, s) ==
    IF \E g \in SeqToSet(Segments(s, <<>>)) : g \in SeqToSet(common_ignored_dirs)
    THEN TRUE
    ELSE LET hits == { i \in DOMAIN pats :
                         IF IsNegation(pats[i]) THEN FnMatch(s, Tail(pats[i]))
                         ELSE FnMatch(s, pats[i]) }
         IN  hits # {} /\ ~IsNegation(pats[CHOOSE i \in hits : \A j \in hits : j <= i])

\* IgnorePatternMatcher.should_ignore with the patterns loaded, step by step
ShouldIgnoreWith(pats, s) ==
    IF \E g \in SeqToSet(Segments(s, <<>>)) : g \in SeqToSet(common_ignored_dirs)
    THEN TRUE
    ELSE IF \E i \in DOMAIN pats :
                IsNegation(pats[i]) /\ FnMatch(s, Tail(pats[i]))
    THEN FALSE
    ELSE IF \E i \in DOMAIN pats :
                ~IsNegation(pats[i]) /\ FnMatch(s, pats[i])
    THEN TRUE
    ELSE IF \E i \in DOMAIN common_ignored_dirs :
                \/ Contains(s, <<"/">> \o common_ignored_dirs[i] \o <<"/">>)
                \/ EndsWith(s, <<"/">> \o common_ignored_dirs[i])
    THEN TRUE
    ELSE \E q \in PartialPaths(s), i \in DOMAIN pats :
                ~IsNegation(pats[i]) /\ FnMatch(q, pats[i])

\* should_ignore of the matcher that loaded IgnoreFileLines
ShouldIgnoreByPatterns(s) == ShouldIgnoreWith(patterns, s)

\* The ignore files of two pattern lines, one of them a negation, in either
\* order, and the paths the matcher is asked about
PositiveLines == { <<"*", "/", "l">>, <<"*", "/", "l", "/", "*">>, <<"*", "/", "g">>, <<"l", "/">> }
NegationLines == { <<"!", "*", "/", "l", "/", "k">>, <<"!", "*", "/", "l">>, <<"!", "/", "r", "/", "s", "/", "*">>, <<"!", "*", "/", "l", "/", "k", "/", "*">> }
IgnoreFiles ==
    { <<n, q>> : n \in NegationLines, q \in PositiveLines }
        \cup { <<q, n>> : n \in NegationLines, q \in PositiveLines }
MatcherPaths == { <<"/", "r", "/", "l">>, <<"/", "r", "/", "l", "/", "k">>, <<"/", "r", "/", "l", "/", "k", "/", "f">>, <<"/", "r", "/", "s">>, <<"/", "r", "/", "s", "/", "g">>, <<"/", "r", "/", "o", "u", "t", "/", "l">> }

\* The matcher with the ignore file loaded and nothing asked yet
NoAnswer == [lines |-> IgnoreFileLines, path |-> <<>>, ret |-> "None"]

\* reload_patterns(): the ignore file is read again
ReloadPatterns(lines) ==
    /\ matcher.lines # lines
    /\ matcher' = [lines |-> lines, path |-> <<>>, ret |-> "None"]

\* should_ignore(path)
ShouldIgnoreCall(path) ==
    matcher' = [matcher EXCEPT
                   !.path = path,
                   !.ret = IF ShouldIgnoreWith(AddLines(CommonPatterns(common_ignored_dirs), matcher.lines),
                                               path)
                           THEN "True" ELSE "False"]

\* The patterns of a matcher that no line of an ignore file gave
CustomPatterns(pats) ==
    SeqToSet(pats) \ SeqToSet(CommonPatterns(common_ignored_dirs))

\* IgnorePatternMatcher.__init__ before it calls load_patterns: no patterns;
\* exists and lines are the ignore file on disk
NoMatcher == [exists |-> FALSE, lines |-> <<>>, patterns |-> <<>>,
              loaded |-> "none", path |-> <<>>, ret |-> "None"]

\* load_patterns: a missing file returns at once; a file that cannot be read
\* leaves no pattern; otherwise the patterns are built anew
LoadPatterns(m, outcome) ==
    IF ~m.exists
    THEN [m EXCEPT !.loaded = "missing", !.path = <<>>, !.ret = "None"]
    ELSE IF outcome = "read_fails"
    THEN [m EXCEPT !.patterns = <<>>, !.loaded = "error", !.path = <<>>, !.ret = "None"]
    ELSE [m EXCEPT !.patterns = AddLines(CommonPatterns(common_ignored_dirs), m.lines),
                   !.loaded = "read", !.path = <<>>, !.ret = "None"]

\* get_matcher() the first time: the matcher is constructed and loads
Constructed(exists, lines) ==
    LoadPatterns([NoMatcher EXCEPT !.exists = exists, !.lines = lines], "ok")

LoadOutcomes == { "ok", "read_fails" }

\* The ignore files the singleton is given, and the paths it is asked about
LoaderFiles == { IgnoreFileLines, << <<"*", "/", "g">>, <<"l", "/">> >>, << <<"*", "/", "l">> >> }
LoaderPaths == { <<"/", "r", "/", "l">>, <<"/", "r", "/", "s", "/", "g">>, <<"/", "r", "/", "o", "u", "t", "/", "l">>, <<"/", "r", "/", "s">> }

\* The ignore file is written
WriteIgnoreFile(lines) ==
    /\ ~(default_matcher.exists /\ default_matcher.lines = lines)
    /\ default_matcher' = [default_matcher EXCEPT !.exists = TRUE, !.lines = lines]

\* The ignore file is removed
RemoveIgnoreFile ==
    /\ default_matcher.exists
    /\ default_matcher' = [default_matcher EXCEPT !.exists = FALSE, !.lines = <<>>]

\* reload_patterns()
ReloadCall(outcome) ==
    default_matcher' = LoadPatterns(default_matcher, outcome)

\* should_ignore(path) of the module: the singleton answers from the
\* patterns it holds
DefaultShouldIgnore(path) ==
    default_matcher' = [default_matcher EXCEPT
                           !.path = path,
                           !.ret = IF ShouldIgnoreWith(default_matcher.patterns, path)
                                   THEN "True" ELSE "False"]

(***************************************************************************)
(* Metadata store and indexer (src/db/db.py)                               *)
(***************************************************************************)

\* The tree the indexer walks: /r with a file f, a directory s holding g, the
\* commonly ignored directory out holding k, and the directory l, ignored by
\* pattern, holding the directory k that the negation exempts, with a file f.
TreePaths ==
    { <<"/", "r">>, <<"/", "r", "/", "f">>, <<"/", "r", "/", "s">>, <<"/", "r", "/", "s", "/", "g">>, <<"/", "r", "/", "o", "u", "t">>, <<"/", "r", "/", "o", "u", "t", "/", "k">>,
      <<"/", "r", "/", "l">>, <<"/", "r", "/", "l", "/", "k">>, <<"/", "r", "/", "l", "/", "k", "/", "f">> }
TreeDirs == { <<"/", "r">>, <<"/", "r", "/", "s">>, <<"/", "r", "/", "o", "u", "t">>, <<"/", "r", "/", "l">>, <<"/", "r", "/", "l", "/", "k">> }

\* The paths of the store's own specification: /a with x and x/y beneath it,
\* /ab, and the directory 'a%' next to 'a%b', which holds c.
StorePaths ==
    { <<"/", "a">>, <<"/", "a", "/", "x">>, <<"/", "a", "/", "x", "/", "y">>, <<"/", "a", "b">>, <<"/", "a", "%">>, <<"/", "a", "%", "b">>, <<"/", "a", "%", "b", "/", "c">> }
StoreDirs == { <<"/", "a">>, <<"/", "a", "/", "x">>, <<"/", "a", "%">>, <<"/", "a", "%", "b">> }

\* A tree with two branches of different depth: /w holds the directories a
\* and t, a holds the directory b, b holds the file c, and t holds the file y
BranchPaths == { <<"/", "w">>, <<"/", "w", "/", "a">>, <<"/", "w", "/", "a", "/", "b">>, <<"/", "w", "/", "a", "/", "b", "/", "c">>, <<"/", "w", "/", "t">>, <<"/", "w", "/", "t", "/", "y">> }
BranchDirs == { <<"/", "w">>, <<"/", "w", "/", "a">>, <<"/", "w", "/", "a", "/", "b">>, <<"/", "w", "/", "t">> }

\* The order in which os.walk lists the entries of a directory
ListingOrder ==
    << <<"/", "r">>, <<"/", "r", "/", "f">>, <<"/", "r", "/", "l">>, <<"/", "r", "/", "o", "u", "t">>, <<"/", "r", "/", "s">>, <<"/", "r", "/", "s", "/", "g">>, <<"/", "r", "/", "o", "u", "t", "/", "k">>,
       <<"/", "r", "/", "l", "/", "k">>, <<"/", "r", "/", "l", "/", "k", "/", "f">>,
       <<"/", "w">>, <<"/", "w", "/", "a">>, <<"/", "w", "/", "t">>, <<"/", "w", "/", "a", "/", "b">>, <<"/", "w", "/", "t", "/", "y">>, <<"/", "w", "/", "a", "/", "b", "/", "c">> >>

\* should_ignore, tabulated once for the paths of the model
IgnoredPaths ==
    { p \in TreePaths \cup StorePaths \cup BranchPaths \cup { <<"/">> } : ShouldIgnoreByPatterns(p) }

ShouldIgnore(p) == p \in IgnoredPaths

NoEntry == [kind |-> "none", mtime |-> 0, size |-> 0]

Kind(fsx, p) == IF p \in DOMAIN fsx THEN fsx[p].kind ELSE "none"

\* str(path.parent), computed on the string
ParentStr(p) ==
    LET i == CHOOSE i \in 1..Len(p) : p[i] = "/" /\ \A j \in (i + 1)..Len(p) : p[j] # "/"
    IN  IF i = 1 THEN <<"/">> ELSE SubSeq(p, 1, i - 1)

\* str(path.parent), tabulated once for the paths of the model
ParentTable == [p \in TreePaths \cup StorePaths \cup BranchPaths \cup { <<"/">> } |-> ParentStr(p)]

ParentOf(p) == ParentTable[p]

\* size_bytes of a directory
NoSize == -1

\* max_files = None
NoLimit == -1

DEFAULT_MAX_DEPTH == 5

NoRow == [present |-> FALSE, is_directory |-> FALSE, size_bytes |-> NoSize,
          modified_time |-> 0, last_indexed |-> 0]

Rows(dbx) == { p \in DOMAIN dbx : dbx[p].present }

\* index_file on an existing row: modified_time, size_bytes and last_indexed
\* are assigned.  The UPDATE is emitted only when an assigned value differs
\* from the loaded one, and it then carries the changed columns only: a
\* modified_time that is not among them takes its onupdate default,
\* datetime.utcnow (db.py line 62).  is_directory is not assigned.
UpdatedRow(row, mtime, size, t) ==
    LET emitted == row.modified_time # mtime \/ row.size_bytes # size \/ row.last_indexed # t
    IN  [row EXCEPT !.modified_time = IF emitted /\ row.modified_time = mtime THEN t ELSE mtime,
                    !.size_bytes = size,
                    !.last_indexed = t]

\* index_file(p) at time t: the outcome and the table after it
IndexFile(dbx, fsx, p, t) ==
    IF ShouldIgnore(p) THEN [ok |-> FALSE, err |-> "Path ignored", db |-> dbx]
    ELSE IF Kind(fsx, p) = "none" THEN [ok |-> FALSE, err |-> "FileNotFoundError", db |-> dbx]
    ELSE LET is_directory == fsx[p].kind = "dir"
             size_bytes == IF is_directory THEN NoSize ELSE fsx[p].size
             row == IF dbx[p].present
                    THEN UpdatedRow(dbx[p], fsx[p].mtime, size_bytes, t)
                    ELSE [present |-> TRUE, is_directory |-> is_directory,
                          size_bytes |-> size_bytes, modified_time |-> fsx[p].mtime,
                          last_indexed |-> t]
         IN  [ok |-> TRUE, err |-> "", db |-> [dbx EXCEPT ![p] = row]]

RECURSIVE Like(_, _)
\* The LIKE operator of SQLite on the lower-case strings of the model: '%'
\* matches any run of characters, '_' matches one character
Like(s, pat) ==
    IF pat = <<>> THEN s = <<>>
    ELSE IF Head(pat) = "%"
         THEN \/ Like(s, Tail(pat))
              \/ (s # <<>> /\ Like(Tail(s), pat))
    ELSE /\ s # <<>>
         /\ (Head(pat) = "_" \/ Head(pat) = Head(s))
         /\ Like(Tail(s), Tail(pat))

\* FileMetadata.path.startswith(prefix): SQLAlchemy renders it as
\* path LIKE prefix || '%', with the prefix not escaped
\* The stored paths each directory prefix matches, worked out once
LikeTable ==
    [prefix \in { p \o <<"/">> : p \in TreePaths \cup StorePaths \cup BranchPaths \cup { <<"/">> } } |->
        { q \in TreePaths \cup StorePaths \cup BranchPaths \cup { <<"/">> } : Like(q, prefix \o <<"%">>) }]

ColumnStartsWith(path, prefix) == path \in LikeTable[prefix]

\* delete_metadata(p): what it returns and the table after it
DeleteMetadata(dbx, p) ==
    IF ~dbx[p].present THEN [ret |-> FALSE, db |-> dbx]
    ELSE [ret |-> TRUE,
          db |-> [q \in DOMAIN dbx |->
                    IF q = p \/ (dbx[p].is_directory /\ ColumnStartsWith(q, p \o <<"/">>))
                    THEN NoRow ELSE dbx[q]]]

\* The entries of directory dir of the given kind, in listing order
Entries(fsx, dir, kind) ==
    SelectSeq(ListingOrder, LAMBDA q : Kind(fsx, q) = kind /\ ParentOf(q) = dir)

\* The walk without the filter of lines 438-450: no directory is pruned
KeptDirsUnpruned(fsx, dir) == Entries(fsx, dir, "dir")

\* index_directory_recursive, lines 438-450: the subdirectories left in dirs
KeptDirs(fsx, dir) == SelectSeq(Entries(fsx, dir, "dir"), LAMBDA q : ~ShouldIgnore(q))

\* The limit of index_directory_recursive has been reached
LimitReached(count, max_files) == max_files # NoLimit /\ count >= max_files

\* A walk that ends at the first entry whose index_file raises
EntryFailedAborts(st) == [st EXCEPT !.done = TRUE]

\* index_directory_recursive, lines 470-476 and 502-508: the exception of an
\* entry is caught inside the loop over the entries, which goes on
EntryFailed(st) == st

\* index_file(q) inside the walk: for the entries of cfg.bad it raises (the
\* entry cannot be read, has vanished since it was listed, or the store
\* fails)
IndexEntry(st, q, cfg) ==
    IF q \in cfg.bad THEN [ok |-> FALSE, err |-> "OSError", db |-> st.db]
    ELSE IndexFile(st.db, cfg.fs, q, cfg.t)

RECURSIVE IndexEach(_, _, _)
\* One of the two loops over the entries of a level: each entry not ignored
\* is indexed and counted, until the limit is reached
IndexEach(st, entries, cfg) ==
    IF entries = <<>> \/ st.done THEN st
    ELSE LET q == Head(entries)
             r == IndexEntry(st, q, cfg)
             st2 == IF ShouldIgnore(q) THEN st
                    ELSE IF ~r.ok THEN EntryFailed(st)
                    ELSE [db |-> r.db, count |-> st.count + 1,
                          done |-> LimitReached(st.count + 1, cfg.max_files)]
         IN  IndexEach(st2, Tail(entries), cfg)

\* The depth test with the level max_depth itself still walked
DepthReachedLate(depth, max_depth) == depth > max_depth

\* index_directory_recursive, line 433: a directory at max_depth is not listed
DepthReached(depth, max_depth) == depth >= max_depth

RECURSIVE WalkDir(_, _, _, _)
RECURSIVE WalkDirs(_, _, _, _)
\* os.walk from dir, top down: the body of the loop for dir, then the
\* subdirectories left in dirs, one after the other
WalkDir(st, dir, depth, cfg) ==
    IF st.done \/ DepthReached(depth, cfg.max_depth) THEN st
    ELSE LET dirs == KeptDirs(cfg.fs, dir)
             after_dirs == IndexEach(st, dirs, cfg)
             after_files == IndexEach(after_dirs, Entries(cfg.fs, dir, "file"), cfg)
         IN  WalkDirs(after_files, dirs, depth + 1, cfg)

WalkDirs(st, dirs, depth, cfg) ==
    IF dirs = <<>> THEN st
    ELSE WalkDirs(WalkDir(st, Head(dirs), depth, cfg), Tail(dirs), depth, cfg)

\* index_directory_recursive(root, max_files, max_depth) at time t, with
\* index_file raising for the entries of bad
IndexWalk(dbx, fsx, root, max_files, max_depth, t, bad) ==
    IF Kind(fsx, root) # "dir" THEN [kind |-> "NotADirectoryError", count |-> 0, db |-> dbx]
    ELSE IF ShouldIgnore(root) THEN [kind |-> "return", count |-> 0, db |-> dbx]
    ELSE LET first == IndexFile(dbx, fsx, root, t)
             cfg == [fs |-> fsx, t |-> t, max_files |-> max_files, max_depth |-> max_depth,
                     bad |-> bad]
             st == WalkDir([db |-> first.db, count |-> 1, done |-> FALSE], root, 0, cfg)
         IN  IF ~first.ok THEN [kind |-> first.err, count |-> 0, db |-> dbx]
             ELSE [kind |-> "return", count |-> st.count, db |-> st.db]

\* index_directory_recursive(root, max_files, max_depth) at time t
IndexDirectoryRecursive(dbx, fsx, root, max_files, max_depth, t) ==
    IndexWalk(dbx, fsx, root, max_files, max_depth, t, {})

\* The calls of a client
IndexFileCall(p) ==
    LET r == IndexFile(db, fs, p, now)
    IN  /\ db' = r.db
        /\ store_ret' = [op |-> "index_file", path |-> p,
                         kind |-> IF r.ok THEN "return" ELSE r.err,
                         count |-> 0, ret |-> r.ok, fs |-> fs]
        /\ UNCHANGED <<now, fs, notStoreVars>>

DeleteMetadataCall(p) ==
    LET r == DeleteMetadata(db, p)
    IN  /\ db' = r.db
        /\ store_ret' = [op |-> "delete_metadata", path |-> p, kind |-> "return",
                         count |-> 0, ret |-> r.ret, fs |-> fs]
        /\ UNCHANGED <<now, fs, notStoreVars>>

IndexDirectoryRecursiveCall(root, max_files, max_depth) ==
    LET r == IndexDirectoryRecursive(db, fs, root, max_files, max_depth, now)
    IN  /\ db' = r.db
        /\ store_ret' = [op |-> "index_directory_recursive", path |-> root,
                         kind |-> r.kind, count |-> r.count, ret |-> TRUE, fs |-> fs]
        /\ UNCHANGED <<now, fs, notStoreVars>>

\* index_directory_recursive while index_file raises for the entries of bad
IndexWalkCall(root, max_depth, bad) ==
    LET r == IndexWalk(db, fs, root, NoLimit, max_depth, now, bad)
    IN  /\ db' = r.db
        /\ store_ret' = [op |-> "index_directory_recursive", path |-> root,
                         kind |-> r.kind, count |-> r.count, ret |-> bad # {}, fs |-> fs]
        /\ UNCHANGED <<now, fs, notStoreVars>>

\* get_rel_depth, lines 422-425: the levels of q below root, counted on the
\* relative path
RelDepth(q, root) ==
    IF q = root THEN 0
    ELSE Cardinality({ i \in (Len(root) + 2)..Len(q) : q[i] = "/" }) + 1

\* The paths from root down to q, root and q included
Between(q, root) ==
    { d \in TreePaths : (d = root \/ Beneath(d, root)) /\ (d = q \/ Beneath(q, d)) }

\* The entries on disk a walk from root finds within max_depth levels: those
\* with no ignored path from root down to them
WithinDepth(fsx, root, max_depth) ==
    { q \in TreePaths :
        /\ Kind(fsx, q) # "none"
        /\ q = root \/ Beneath(q, root)
        /\ RelDepth(q, root) <= max_depth
        /\ \A d \in Between(q, root) : ~ShouldIgnore(d) }

\* Someone writes to a file on disk: its modification time becomes now
Touch(p) ==
    /\ fs[p].kind = "file"
    /\ fs[p].mtime # now
    /\ fs' = [fs EXCEPT ![p].mtime = now]
    /\ UNCHANGED <<now, db, store_ret, notStoreVars>>

\* Someone replaces a file by a directory of the same name, or an empty
\* directory by a file
ExtSwapKind(p) ==
    /\ Kind(fs, p) # "none"
    /\ \A q \in DOMAIN fs : Beneath(q, p) => Kind(fs, q) = "none"
    /\ fs' = [fs EXCEPT ![p].kind = IF @ = "file" THEN "dir" ELSE "file"]
    /\ UNCHANGED <<now, db, store_ret, notStoreVars>>

NoCall == [op |-> "none", path |-> <<>>, kind |-> "none", count |-> 0, ret |-> FALSE, fs |-> <<>>]

\* Every path of the given set exists, the directories as directories
FullTree(paths, dirs) ==
    [p \in paths |-> [kind |-> IF p \in dirs THEN "dir" ELSE "file", mtime |-> 0, size |-> 1]]

\* The components that are not in use hold no paths
StoreIdle ==
    /\ fs = <<>>
    /\ db = <<>>
    /\ store_ret = NoCall

(***************************************************************************)
(* Watcher (src/utils/watcher.py, src/api/metadata_api.py)                 *)
(***************************************************************************)

\* The program's settings, scaled down: 300 s between scans, 200 queue items
\* per drain, a queue of 10000, a full scan every 5th cycle, 1000 files per
\* reindexed directory, 5000 per initial scan, one day of backdating.
SCAN_INTERVAL == 1
BATCH_SIZE == 1
QUEUE_MAXLEN == 2
SCAN_EVERY == 2
CHANGE_MAX_FILES == 3
MAX_INITIAL_FILES == 4
FORCE_BACKDATE == 2

\* The watched directory /r and the paths that come and go beneath it: the
\* directory s and its file g.
WatchedDir == <<"/", "r">>
WatchPaths == { <<"/">>, <<"/", "r">>, <<"/", "r", "/", "s">>, <<"/", "r", "/", "s", "/", "g">> }
WatchDirs == { <<"/">>, <<"/", "r">>, <<"/", "r", "/", "s">> }
ComingAndGoing == { <<"/", "r", "/", "s">>, <<"/", "r", "/", "s", "/", "g">> }
NotifiedFiles == { <<"/", "r", "/", "s", "/", "g">> }

\* last_scan_times has no entry for the directory
NoTime == -1000

\* The order in which a set of paths is walked through
WatchOrder == << <<"/">>, <<"/", "r">>, <<"/", "r", "/", "s">>, <<"/", "r", "/", "s", "/", "g">> >>

RECURSIVE Parents(_)
\* path.parents
Parents(p) == IF p = <<"/">> THEN {} ELSE {ParentOf(p)} \cup Parents(ParentOf(p))

\* The lock of a directory is held: by its delayed_recursive_scan, from
\* before its sleep until it returns
IndexingLocked(d) == d \in DOMAIN scan_task /\ scan_task[d] = "sleeping"

\* A full queue that keeps what it holds and drops the new item
QueueAppendDropNewest(q, p) ==
    IF Len(q) >= QUEUE_MAXLEN THEN q ELSE Append(q, p)

\* deque.append with maxlen: a full queue drops its oldest item
QueueAppend(q, p) ==
    IF Len(q) >= QUEUE_MAXLEN THEN Append(Tail(q), p) ELSE Append(q, p)

\* MarkModified without the set of modified paths: the path is only queued
MarkQueuedOnly(mp, p, is_dir) == mp

\* MarkModified without the loop over path.parents
MarkModifiedAlone(mp, p, is_dir) == mp \cup {p}

\* notify_change, lines 185-195: the path joins modified_paths, and so do the
\* parents of a directory
MarkModified(mp, p, is_dir) == mp \cup {p} \cup (IF is_dir THEN Parents(p) ELSE {})

\* index_file or delete_metadata, as the path exists or not; an exception is
\* logged and the table is as it was
IndexOrDelete(dbx, fsx, p, t) ==
    IF Kind(fsx, p) # "none" THEN IndexFile(dbx, fsx, p, t).db
    ELSE DeleteMetadata(dbx, p).db

RECURSIVE DrainQueue(_, _, _, _, _)
\* _process_change_queue, the loop of lines 388-414: n items are taken
DrainQueue(dbx, q, n, fsx, t) ==
    IF n = 0 \/ q = <<>> THEN [db |-> dbx, queue |-> q]
    ELSE DrainQueue(IF Kind(fsx, Head(q)) = "dir" THEN dbx
                    ELSE IndexOrDelete(dbx, fsx, Head(q), t),
                    Tail(q), n - 1, fsx, t)

Min(a, b) == IF a < b THEN a ELSE b

\* _process_change_queue
ProcessChangeQueue(dbx, q, fsx, t) == DrainQueue(dbx, q, Min(Len(q), BATCH_SIZE), fsx, t)

RECURSIVE ProcessFiles(_, _, _, _)
\* _process_modified_paths, lines 311-332: the files
ProcessFiles(dbx, files, fsx, t) ==
    IF files = <<>> THEN dbx
    ELSE ProcessFiles(IndexOrDelete(dbx, fsx, Head(files), t), Tail(files), fsx, t)

\* dir_path_str.startswith(wd) for a watched wd, or dir_path_str watched
UnderWatched(d, watched) ==
    d \in watched \/ \E wd \in watched : StartsWith(d, wd)

\* _process_modified_paths, lines 347-365: one directory whose lock is free
ProcessDir(dbx, d, fsx, watched, t) ==
    IF Kind(fsx, d) = "none" THEN DeleteMetadata(dbx, d).db
    ELSE LET r == IndexFile(dbx, fsx, d, t)
         IN  IF ~r.ok THEN dbx
             ELSE IF UnderWatched(d, watched)
                  THEN IndexDirectoryRecursive(r.db, fsx, d, CHANGE_MAX_FILES,
                                               DEFAULT_MAX_DEPTH, t).db
             ELSE r.db

RECURSIVE ProcessDirs(_, _, _, _, _, _)
\* _process_modified_paths, lines 335-368: the directories; one whose lock
\* is held is passed over
ProcessDirs(dbx, dirs, locked, fsx, watched, t) ==
    IF dirs = <<>> THEN dbx
    ELSE ProcessDirs(IF Head(dirs) \in locked THEN dbx
                     ELSE ProcessDir(dbx, Head(dirs), fsx, watched, t),
                     Tail(dirs), locked, fsx, watched, t)

\* _process_modified_paths: the queue first, then the modified paths, files
\* before directories; a path that does not exist goes with the directories
ProcessModifiedPaths(dbx, q, mp, locked, fsx, watched, t) ==
    LET a == ProcessChangeQueue(dbx, q, fsx, t)
        todo == SelectSeq(WatchOrder, LAMBDA p : p \in mp)
        files == SelectSeq(todo, LAMBDA p : Kind(fsx, p) = "file")
        dirs == SelectSeq(todo, LAMBDA p : Kind(fsx, p) # "file")
    IN  IF mp = {} THEN [db |-> a.db, queue |-> a.queue, modified |-> mp]
        ELSE [db |-> ProcessDirs(ProcessFiles(a.db, files, fsx, t), dirs, locked,
                                 fsx, watched, t),
              queue |-> a.queue, modified |-> {}]

\* ScanRows listing the row of the directory only
ScanRowsOfDirOnly(dbx, d) == SelectSeq(WatchOrder, LAMBDA p : dbx[p].present /\ p = d)

\* _scan_directories, lines 237-242: the rows of the directory and beneath it
ScanRows(dbx, d) ==
    SelectSeq(WatchOrder,
              LAMBDA p : dbx[p].present /\ (p = d \/ ColumnStartsWith(p, d \o <<"/">>)))

RECURSIVE DeleteMissing(_, _, _)
\* _scan_directories, lines 245-249: the rows whose path is gone are deleted
DeleteMissing(dbx, rows, fsx) ==
    IF rows = <<>> THEN dbx
    ELSE DeleteMissing(IF Kind(fsx, Head(rows)) = "none"
                       THEN DeleteMetadata(dbx, Head(rows)).db ELSE dbx,
                       Tail(rows), fsx)

ScanDue(d, times, t) == times[d] = NoTime \/ t - times[d] >= SCAN_INTERVAL

RECURSIVE ScanEach(_, _, _, _, _)
\* _scan_directories, lines 228-261: each directory that is due
ScanEach(dbx, times, dirs, fsx, t) ==
    IF dirs = <<>> THEN [db |-> dbx, times |-> times]
    ELSE LET d == Head(dirs)
             cleaned == DeleteMissing(dbx, ScanRows(dbx, d), fsx)
             r == IndexDirectoryRecursive(cleaned, fsx, d, NoLimit, DEFAULT_MAX_DEPTH, t)
         IN  ScanEach(r.db,
                      IF r.kind = "return" THEN [times EXCEPT ![d] = t] ELSE times,
                      Tail(dirs), fsx, t)

\* _scan_directories
ScanDirectories(dbx, times, watched, fsx, t) ==
    ScanEach(dbx, times,
             SelectSeq(WatchOrder, LAMBDA d : d \in watched /\ ScanDue(d, times, t)),
             fsx, t)

\* notify_change(p), lines 183-214: what it does to the watcher
NotifyChangeSteps(p) ==
    /\ IF p \in modified_paths
       THEN UNCHANGED <<modified_paths, path_change_queue, watcher_running, loop>>
       ELSE /\ modified_paths' = MarkModified(modified_paths, p, Kind(fs, p) = "dir")
            /\ path_change_queue' = QueueAppend(path_change_queue, p)
            /\ IF ~watcher_running /\ watched_directories # {}
               THEN /\ watcher_running' = TRUE
                    /\ loop' = [pc |-> "top", cycles |-> 0]
               ELSE UNCHANGED <<watcher_running, loop>>
    /\ owed' = [f \in DOMAIN owed |->
                    IF /\ f = p
                       /\ Kind(fs, f) = "file"
                       /\ owed[f] = 0
                       /\ watcher_running
                       /\ \E d \in watched_directories : Beneath(f, d)
                    THEN 1 ELSE owed[f]]

\* notify_change(p)
NotifyChange(p) ==
    /\ NotifyChangeSteps(p)
    /\ UNCHANGED <<now, storeVars, watched_directories, last_scan_times, scan_task,
                   cacheVars, pathVars, moreVars>>

\* notify_change(p) with the call recorded: the length of the queue before
\* it, and whether the path was in modified_paths already
NotifyChangeCall(p) ==
    /\ NotifyChangeSteps(p)
    /\ store_ret' = [op |-> "notify_change", path |-> p, kind |-> "return",
                     count |-> Len(path_change_queue), ret |-> p \in modified_paths,
                     fs |-> <<>>]
    /\ UNCHANGED <<now, fs, db, watched_directories, last_scan_times, scan_task,
                   cacheVars, pathVars, moreVars>>

\* The steps of a cycle with the full scan awaited before the pending set
LoopPhaseAfterScanFirst(pc) ==
    CASE pc = "queue" -> "scan"
      [] pc = "scan" -> "modified"
      [] OTHER -> "top"

\* _watcher_loop, lines 449-460: the step of a cycle that follows step pc: the
\* queue, then the pending set, then the full scan, each awaited to its end
LoopPhaseAfter(pc) ==
    CASE pc = "queue" -> "modified"
      [] pc = "modified" -> "scan"
      [] OTHER -> "top"

\* _watcher_loop, lines 444-446 and 487-488: the test of the while loop; a
\* cycle begins, or the loop ends
LoopTop ==
    /\ loop.pc = "top"
    /\ IF watcher_running /\ watched_directories # {}
       THEN /\ loop' = [pc |-> "queue", cycles |-> (loop.cycles + 1) % SCAN_EVERY]
            /\ owed' = [f \in DOMAIN owed |-> IF owed[f] = 1 THEN 2 ELSE owed[f]]
            /\ UNCHANGED watcher_running
       ELSE /\ loop' = [pc |-> "none", cycles |-> 0]
            /\ watcher_running' = FALSE
            /\ UNCHANGED owed
    /\ UNCHANGED <<now, storeVars, watched_directories, last_scan_times, modified_paths,
                   path_change_queue, scan_task, cacheVars, pathVars, moreVars>>

\* _watcher_loop, lines 450-451
LoopQueue ==
    /\ loop.pc = "queue"
    /\ \E a \in { ProcessChangeQueue(db, path_change_queue, fs, now) } :
          /\ db' = a.db
          /\ path_change_queue' = a.queue
    /\ loop' = [loop EXCEPT !.pc = LoopPhaseAfter("queue")]
    /\ UNCHANGED <<now, fs, store_ret, watched_directories, last_scan_times, modified_paths,
                   watcher_running, scan_task, owed, cacheVars, pathVars, moreVars>>

\* _watcher_loop, lines 454-455
LoopModified ==
    /\ loop.pc = "modified"
    /\ IF modified_paths = {}
       THEN UNCHANGED <<db, path_change_queue, modified_paths>>
       ELSE \E a \in { ProcessModifiedPaths(db, path_change_queue, modified_paths,
                                             { d \in WatchDirs : IndexingLocked(d) },
                                             fs, watched_directories, now) } :
               /\ db' = a.db
               /\ path_change_queue' = a.queue
               /\ modified_paths' = a.modified
    /\ loop' = [loop EXCEPT !.pc = LoopPhaseAfter("modified")]
    /\ UNCHANGED <<now, fs, store_ret, watched_directories, last_scan_times,
                   watcher_running, scan_task, owed, cacheVars, pathVars, moreVars>>

\* _watcher_loop, lines 459-468: the full scan of every SCAN_EVERY-th cycle,
\* then the sleep that ends the cycle
LoopScan ==
    /\ loop.pc = "scan"
    /\ IF loop.cycles = 0
       THEN \E a \in { ScanDirectories(db, last_scan_times, watched_directories, fs, now) } :
               /\ db' = a.db
               /\ last_scan_times' = a.times
       ELSE UNCHANGED <<db, last_scan_times>>
    /\ loop' = [loop EXCEPT !.pc = LoopPhaseAfter("scan")]
    /\ owed' = [f \in DOMAIN owed |-> IF owed[f] = 2 THEN 0 ELSE owed[f]]
    /\ UNCHANGED <<now, fs, store_ret, watched_directories, modified_paths,
                   path_change_queue, watcher_running, scan_task, cacheVars, pathVars, moreVars>>

\* What a step of the loop can raise: an error of the step, or the
\* CancelledError delivered at an await of a cancelled task
LoopExceptions == { "Exception", "CancelledError" }

\* A cycle whose handler catches nothing
CycleCatchesNothing(exc) == FALSE

\* _watcher_loop, line 476: except Exception inside the cycle; CancelledError
\* derives from BaseException and passes it
CycleCatches(exc) == exc = "Exception"

\* The step of the cycle at pc is awaited in this cycle
PhaseRuns(pc) ==
    \/ pc = "queue" /\ path_change_queue # <<>>
    \/ pc = "modified" /\ modified_paths # {}
    \/ pc = "scan" /\ loop.cycles = 0

\* What the loop logs: count is 1 when the task leaves the loop
LoopLog(level, exc, ended) ==
    [op |-> "_watcher_loop", path |-> <<>>, kind |-> level, count |-> IF ended THEN 1 ELSE 0,
     ret |-> exc = "CancelledError", fs |-> <<>>]

\* _watcher_loop, lines 476-488: a step of the cycle raises exc at its first
\* await. Caught in the cycle, it is logged as an error and the loop sleeps
\* and goes to its next cycle; otherwise the task leaves the loop, a
\* cancellation logged as information and anything else as a fatal error,
\* and the finally clause lowers the flag.
LoopRaise(exc) ==
    /\ loop.pc \in {"queue", "modified", "scan"}
    /\ exc = "Exception" => PhaseRuns(loop.pc)
    /\ IF CycleCatches(exc)
       THEN /\ loop' = [loop EXCEPT !.pc = "top"]
            /\ store_ret' = LoopLog("error", exc, FALSE)
            /\ UNCHANGED watcher_running
       ELSE /\ loop' = [pc |-> "none", cycles |-> 0]
            /\ store_ret' = LoopLog(IF exc = "CancelledError" THEN "info" ELSE "error", exc, TRUE)
            /\ watcher_running' = FALSE
    /\ UNCHANGED <<now, fs, db, watched_directories, last_scan_times, modified_paths,
                   path_change_queue, scan_task, owed, cacheVars, pathVars, moreVars>>

\* delayed_recursive_scan, lines 84-99: the lock is taken, the task sleeps
DelayedScanSleep(d) ==
    /\ scan_task[d] = "pending"
    /\ scan_task' = [scan_task EXCEPT ![d] = "sleeping"]
    /\ UNCHANGED <<now, storeVars, watched_directories, last_scan_times, modified_paths,
                   path_change_queue, watcher_running, loop, owed, cacheVars, pathVars, moreVars>>

RECURSIVE IndexChildren(_, _, _, _)
\* delayed_recursive_scan, lines 119-129: the entries of the directory
IndexChildren(dbx, entries, fsx, t) ==
    IF entries = <<>> THEN dbx
    ELSE IndexChildren(IndexFile(dbx, fsx, Head(entries), t).db, Tail(entries), fsx, t)

\* delayed_recursive_scan, lines 101-144: the scan after the sleep
DelayedScanRun(d) ==
    /\ scan_task[d] = "sleeping"
    /\ scan_task' = [scan_task EXCEPT ![d] = "none"]
    /\ IF Kind(fs, d) # "dir" THEN UNCHANGED db
       ELSE LET first == IndexFile(db, fs, d, now)
                children == SelectSeq(WatchOrder,
                                LAMBDA q : Kind(fs, q) # "none" /\ q # d /\ ParentOf(q) = d)
                shallow == IndexChildren(first.db, children, fs, now)
            IN  db' = IF ~first.ok THEN db
                      ELSE IndexDirectoryRecursive(shallow, fs, d, MAX_INITIAL_FILES,
                                                   DEFAULT_MAX_DEPTH, now).db
    /\ last_scan_times' = [last_scan_times EXCEPT ![d] = now]
    /\ UNCHANGED <<now, fs, store_ret, watched_directories, modified_paths,
                   path_change_queue, watcher_running, loop, owed, cacheVars, pathVars, moreVars>>

\* The request has no path
NoPath == <<>>

\* scan_watched_directories(path, force) of the metadata API: with force the
\* last scan times are set back, then _scan_directories and
\* _process_modified_paths run; a path that is not watched is refused
ScanWatchedDirectories(path, force) ==
    LET refused == IF path = NoPath THEN watched_directories = {}
                   ELSE path \notin watched_directories
        reset == IF path = NoPath THEN watched_directories ELSE {path}
        times == [d \in DOMAIN last_scan_times |->
                    IF force /\ d \in reset THEN now - FORCE_BACKDATE ELSE last_scan_times[d]]
    IN  IF refused
        THEN /\ store_ret' = [op |-> "scan_watched_directories", path |-> <<>>,
                              kind |-> "refused", count |-> 0, ret |-> force, fs |-> <<>>]
             /\ UNCHANGED <<db, last_scan_times, path_change_queue, modified_paths>>
        ELSE \E a \in { ScanDirectories(db, times, watched_directories, fs, now) } :
             \E b \in { ProcessModifiedPaths(a.db, path_change_queue, modified_paths,
                                             { d \in WatchDirs : IndexingLocked(d) },
                                             fs, watched_directories, now) } :
                /\ store_ret' = [op |-> "scan_watched_directories", path |-> <<>>,
                                 kind |-> "return",
                                 count |-> Cardinality(Rows(db) \ Rows(b.db)),
                                 ret |-> force, fs |-> <<>>]
                /\ db' = b.db
                /\ last_scan_times' = a.times
                /\ path_change_queue' = b.queue
                /\ modified_paths' = b.modified

ScanWatchedDirectoriesCall(path, force) ==
    /\ ScanWatchedDirectories(path, force)
    /\ UNCHANGED <<now, fs, watched_directories, watcher_running, loop, scan_task, owed,
                   cacheVars, pathVars, moreVars>>

\* Someone creates a file or a directory on disk
ExtCreate(p) ==
    /\ Kind(fs, p) = "none"
    /\ Kind(fs, ParentOf(p)) = "dir"
    /\ fs' = [fs EXCEPT ![p] = [kind |-> IF p \in WatchDirs THEN "dir" ELSE "file",
                                mtime |-> now, size |-> 1]]
    /\ UNCHANGED <<now, db, store_ret, watcherVars, cacheVars, pathVars, moreVars>>

\* Someone removes a file, or a directory with all it holds, from disk
ExtRemove(p) ==
    /\ Kind(fs, p) # "none"
    /\ fs' = [q \in DOMAIN fs |-> IF q = p \/ Beneath(q, p) THEN NoEntry ELSE fs[q]]
    /\ owed' = [f \in DOMAIN owed |-> IF f = p \/ Beneath(f, p) THEN 0 ELSE owed[f]]
    /\ UNCHANGED <<now, db, store_ret, watched_directories, last_scan_times, modified_paths,
                   path_change_queue, watcher_running, loop, scan_task, cacheVars, pathVars, moreVars>>

\* The watcher while nothing is watched
WatcherIdle ==
    /\ watched_directories = {}
    /\ last_scan_times = <<>>
    /\ modified_paths = {}
    /\ path_change_queue = <<>>
    /\ watcher_running = FALSE
    /\ loop = [pc |-> "none", cycles |-> 0]
    /\ scan_task = <<>>
    /\ owed = <<>>

(***************************************************************************)
(* Search (src/db/db.py, search_metadata)                                  *)
(***************************************************************************)

\* The rows of the table a client pages through
SearchRows == { <<"/", "a">>, <<"/", "a", "/", "x">>, <<"/", "a", "/", "x", "/", "y">>, <<"/", "a", "b">>, <<"/", "a", "%">> }

\* No path prefix, no directory flag and no size bound is given
NoPrefix == <<>>
NoFlag == "None"
NoBound == -1

\* The filters of the searches: none, files only, a size range, a path prefix
AnyRow == [is_directory |-> NoFlag, min_size |-> NoBound, path_prefix |-> NoPrefix]
SearchFilters ==
    { AnyRow,
      [AnyRow EXCEPT !.is_directory = "False"],
      [AnyRow EXCEPT !.min_size = 0],
      [AnyRow EXCEPT !.path_prefix = <<"/", "a">>] }

\* The page sizes asked for
SearchLimits == { 1, 2, 3 }

\* Every order of a set of rows
Orders(S) == { o \in [1..Cardinality(S) -> S] : \A i, j \in DOMAIN o : i # j => o[i] # o[j] }

\* The WHERE clause search_metadata builds; a comparison with the NULL size
\* of a directory is not true
Matches(dbx, p, f) ==
    /\ dbx[p].present
    /\ f.is_directory # NoFlag => dbx[p].is_directory = (f.is_directory = "True")
    /\ f.min_size # NoBound => (dbx[p].size_bytes # NoSize /\ dbx[p].size_bytes >= f.min_size)
    /\ f.path_prefix # NoPrefix =>
          (p = f.path_prefix \/ ColumnStartsWith(p, f.path_prefix \o <<"/">>))

\* Page with the offset taken one row too early
PageFromOffset(rows, limit, offset) ==
    SubSeq(rows, IF offset = 0 THEN 1 ELSE offset,
           IF offset + limit < Len(rows) THEN offset + limit ELSE Len(rows))

\* OFFSET offset LIMIT limit
Page(rows, limit, offset) ==
    SubSeq(rows, offset + 1, IF offset + limit < Len(rows) THEN offset + limit ELSE Len(rows))

\* search_metadata: the statement has no ORDER BY; the database walks the
\* table, or the index it picks for the statement, in one order for as long
\* as the table does not change
SearchMetadata(dbx, order, f, limit, offset) ==
    Page(SelectSeq(order, LAMBDA p : Matches(dbx, p, f)), limit, offset)

NoSearch == [filter |-> AnyRow, limit |-> 0, offset |-> 0, pages |-> <<>>,
             order |-> <<>>, done |-> TRUE]

\* A client starts to page through the results of a search
SearchFirst(f, limit) ==
    /\ search.done
    /\ search' = [search EXCEPT !.filter = f, !.limit = limit, !.offset = 0,
                                !.pages = <<>>, !.done = FALSE]

\* The client asks for the next page, until a page comes back short
SearchNext ==
    /\ ~search.done
    /\ \E page \in { SearchMetadata(db, search.order, search.filter, search.limit,
                                    search.offset) } :
          search' = [search EXCEPT !.pages = Append(@, page),
                                   !.offset = @ + search.limit,
                                   !.done = Len(page) < search.limit]

(***************************************************************************)
(* The watcher's tasks (src/utils/watcher.py): watch_directory,            *)
(* unwatch_directory, start_watcher_if_needed, stop_watcher, notify_change *)
(* and the _watcher_loop tasks they create and cancel.  Every call and     *)
(* every task is a coroutine on one event loop: it runs alone from one     *)
(* await to the next, and the calls and tasks that are ready run in any    *)
(* order.                                                                  *)
(***************************************************************************)

\* The most calls made to the watcher in one run
MaxCalls == 4

\* The directory the calls are about
LifeDir == <<"/", "r">>

\* watcher_task is None
NoTask == 0

\* The _watcher_loop tasks ever created
TaskIds == 1..MaxCalls

\* A task is created and has not run; it runs its loop, suspended at an
\* await; either with a cancellation requested and not yet delivered; it is
\* done
TaskLive == { "pending", "alive", "pending_cancel", "alive_cancel" }

NoLife == [watched_directories |-> {}, watcher_running |-> FALSE,
           watcher_task |-> NoTask, task |-> [t \in TaskIds |-> "none"],
           watching |-> 0, starting |-> 0, start_await |-> NoTask,
           stops |-> 0, stop_await |-> NoTask, waiters |-> <<>>,
           scans |-> 0, overlapped |-> FALSE, overlapped_stop |-> FALSE,
           calls |-> 0]

\* global_lock is held: by the start_watcher_if_needed or the stop_watcher
\* that awaits the task it cancelled
GlobalLocked(l) == l.start_await # NoTask \/ l.stop_await # NoTask

\* async with global_lock has to wait: the lock is held, or others wait for
\* it already (an asyncio.Lock goes to its waiters in the order they came)
MustWait(l) == GlobalLocked(l) \/ l.waiters # <<>>

\* task.cancel()
Cancelled(st) == IF st = "pending" THEN "pending_cancel"
                 ELSE IF st = "alive" THEN "alive_cancel" ELSE st

\* The task asyncio.create_task makes
NewTask(l) == CHOOSE t \in TaskIds : l.task[t] = "none" /\ \A u \in TaskIds : u < t => l.task[u] # "none"

\* The number of _watcher_loop tasks that run their loop
LiveTasks(l) == Cardinality({ t \in TaskIds : l.task[t] \in { "alive", "alive_cancel" } })

\* notify_change, lines 203-214: the loop is started from the synchronous
\* context when the flag is down and a directory is watched
StartSync(l) ==
    IF ~l.watcher_running /\ l.watched_directories # {}
    THEN [l EXCEPT !.watcher_task = NewTask(l), !.task[NewTask(l)] = "pending",
                   !.watcher_running = TRUE]
    ELSE l

\* start_watcher_if_needed creating a task only when none was ever created
StartLockedOnce(l) ==
    IF ~l.watcher_running /\ l.watched_directories # {} /\ l.watcher_task = NoTask
    THEN [l EXCEPT !.watcher_task = NewTask(l), !.task[NewTask(l)] = "pending"]
    ELSE l

\* start_watcher_if_needed once it holds global_lock, lines 497-512: a task
\* that is not done is cancelled and awaited with the lock held, then a new
\* task is created
StartLocked(l) ==
    IF ~l.watcher_running /\ l.watched_directories # {}
    THEN IF l.watcher_task # NoTask /\ l.task[l.watcher_task] \in TaskLive
         THEN [l EXCEPT !.task[l.watcher_task] = Cancelled(@),
                        !.start_await = l.watcher_task]
         ELSE [l EXCEPT !.watcher_task = NewTask(l), !.task[NewTask(l)] = "pending"]
    ELSE l

\* stop_watcher, lines 533-539, after its first block: the queue is cleared
\* and global_lock is taken once more to clear indexing_locks
StopTail(l) ==
    IF MustWait(l) THEN [l EXCEPT !.waiters = Append(@, "clear")]
    ELSE [l EXCEPT !.stops = @ - 1]

\* stop_watcher once it holds global_lock, lines 521-531: the flag goes
\* down, the task is cancelled and awaited with the lock held
StopLocked(l) ==
    IF l.watcher_running /\ l.watcher_task # NoTask /\ l.task[l.watcher_task] \in TaskLive
    THEN [l EXCEPT !.watcher_running = FALSE,
                   !.task[l.watcher_task] = Cancelled(@),
                   !.stop_await = l.watcher_task]
    ELSE StopTail(l)

\* stop_watcher up to its first await: the lock is taken at once when
\* nobody holds it or waits for it
StopEnter(l) ==
    IF MustWait(l) THEN [l EXCEPT !.stops = @ + 1, !.waiters = Append(@, "stop")]
    ELSE StopLocked([l EXCEPT !.stops = @ + 1])

\* watch_directory, lines 47-61: the directory joins the watched set, the
\* call awaits index_file
WatchBegin ==
    /\ life.calls < MaxCalls
    /\ life' = [life EXCEPT !.calls = @ + 1,
                            !.watched_directories = @ \cup {LifeDir},
                            !.watching = @ + 1,
                            !.overlapped = @ \/ life.watching > 0,
                            !.overlapped_stop = @ \/ life.stop_await # NoTask]

\* watch_directory, lines 62-73: when index_file returned the
\* delayed_recursive_scan task is created, and the start_watcher_if_needed
\* task is created whether it returned or raised
WatchEnd(indexed) ==
    /\ life.watching > 0
    /\ life' = [life EXCEPT !.watching = @ - 1,
                            !.scans = IF indexed THEN @ + 1 ELSE @,
                            !.starting = @ + 1]

\* start_watcher_if_needed runs: it takes global_lock or waits for it
StartRun ==
    /\ life.starting > 0
    /\ life' = IF MustWait(life)
               THEN [life EXCEPT !.starting = @ - 1, !.waiters = Append(@, "start")]
               ELSE StartLocked([life EXCEPT !.starting = @ - 1])

\* start_watcher_if_needed, lines 503-511: the cancelled task is done, the
\* new one is created and the lock released
StartResume ==
    /\ life.start_await # NoTask
    /\ life.task[life.start_await] = "done"
    /\ life' = [life EXCEPT !.watcher_task = NewTask(life),
                            !.task[NewTask(life)] = "pending",
                            !.start_await = NoTask]

\* notify_change for a path not yet in modified_paths
NotifyStart ==
    /\ life.calls < MaxCalls
    /\ life' = StartSync([life EXCEPT !.calls = @ + 1])

\* unwatch_directory: the directory leaves the watched set; stop_watcher is
\* called when none is left and the flag is up
UnwatchCall ==
    /\ life.calls < MaxCalls
    /\ LET l == [life EXCEPT !.calls = @ + 1, !.watched_directories = @ \ {LifeDir}]
       IN  life' = IF l.watched_directories = {} /\ l.watcher_running THEN StopEnter(l) ELSE l

\* stop_watcher called on its own
StopCall ==
    /\ life.calls < MaxCalls
    /\ life' = StopEnter([life EXCEPT !.calls = @ + 1])

\* global_lock is released and goes to the first that waits for it: a
\* start_watcher_if_needed, a stop_watcher, or the last block of a
\* stop_watcher
LockGrant ==
    /\ ~GlobalLocked(life)
    /\ life.waiters # <<>>
    /\ LET l == [life EXCEPT !.waiters = Tail(@)]
       IN  life' = IF Head(life.waiters) = "start" THEN StartLocked(l)
                   ELSE IF Head(life.waiters) = "stop" THEN StopLocked(l)
                   ELSE [l EXCEPT !.stops = @ - 1]

\* stop_watcher, lines 525-539: the cancelled task is done, the lock
\* released
StopResume ==
    /\ life.stop_await # NoTask
    /\ life.task[life.stop_await] = "done"
    /\ life' = StopTail([life EXCEPT !.stop_await = NoTask])

\* No directory is watched, the flag is down, no task is left and no
\* stop_watcher is under way
LifeIdle(l) ==
    /\ l.watched_directories = {}
    /\ ~l.watcher_running
    /\ \A t \in TaskIds : l.task[t] \notin TaskLive
    /\ l.stops = 0

\* The flag is up and a task runs the loop
LifeRunning(l) == l.watcher_running /\ \E t \in TaskIds : l.task[t] = "alive"

\* The loop going on while its flag is up, whatever is watched
LoopContinuesByFlag(l) == l.watcher_running

\* _watcher_loop, line 444: the while condition
LoopContinues(l) == l.watcher_running /\ l.watched_directories # {}

\* _watcher_loop, lines 430-446: the task runs for the first time, raises the
\* flag and tests the while condition; a task cancelled before it ran never
\* runs
TaskStart(t) ==
    \/ /\ life.task[t] = "pending_cancel"
       /\ life' = [life EXCEPT !.task[t] = "done"]
    \/ /\ life.task[t] = "pending"
       /\ life' = IF LoopContinues([life EXCEPT !.watcher_running = TRUE])
                  THEN [life EXCEPT !.task[t] = "alive", !.watcher_running = TRUE]
                  ELSE [life EXCEPT !.task[t] = "done", !.watcher_running = FALSE]

\* _watcher_loop, lines 444 and 483-488: the task leaves the loop, by the
\* CancelledError raised at its await or by the while condition, and its
\* finally clause lowers the flag
TaskEnd(t) ==
    /\ \/ life.task[t] = "alive_cancel"
       \/ /\ life.task[t] = "alive"
          /\ ~LoopContinues(life)
    /\ life' = [life EXCEPT !.task[t] = "done", !.watcher_running = FALSE]

(***************************************************************************)
(* The store under concurrent sessions (src/db/db.py): index_file and      *)
(* delete_metadata each open a session of their own, read the row of the   *)
(* path, and write at commit; other calls run between the two.  The table  *)
(* is the set of its rows, each with its autoincrement id, and only the    *)
(* UNIQUE index on path keeps two rows from having one path.               *)
(***************************************************************************)

\* The most index_file and delete_metadata calls in one run
MaxStoreCalls == 4

\* The tasks that call the store
Sessions == { 1, 2 }

\* The paths they call it with: a directory and a file in it
SessionPaths == { <<"/", "a">>, <<"/", "a", "/", "x">> }
SessionDirs == { <<"/", "a">> }

\* scalar_one_or_none() found no row
NoId == 0

NoSession == [pc |-> "idle", path |-> <<>>, seen |-> NoId, ret |-> "None"]

NoSessions == [rows |-> {}, next_id |-> 1, calls |-> 0,
               session |-> [i \in Sessions |-> NoSession]]

\* The ids of the rows with the path
RowIds(rows, path) == { r.id : r \in { q \in rows : q.path = path } }

\* INSERT with no UNIQUE index on path
InsertUnchecked(rows, id, path) == rows \cup { [id |-> id, path |-> path] }

\* INSERT INTO file_metadata: the UNIQUE index on path (line 55) refuses a
\* second row with the path, and the table is left as it was
Insert(rows, id, path) ==
    IF RowIds(rows, path) # {} THEN rows
    ELSE rows \cup { [id |-> id, path |-> path] }

\* index_file, lines 183-189, and delete_metadata, lines 253-256: the row of
\* the path is read
Select(op, i, path) ==
    /\ sess.calls < MaxStoreCalls
    /\ sess.session[i].pc = "idle"
    /\ \E ids \in { RowIds(sess.rows, path) } :
         IF Cardinality(ids) > 1
         THEN sess' = [sess EXCEPT !.calls = @ + 1,
                                   !.session[i] = [pc |-> "idle", path |-> path, seen |-> NoId,
                                                   ret |-> "MultipleResultsFound"]]
         ELSE \E seen \in (IF ids = {} THEN { NoId } ELSE ids) :
                sess' = [sess EXCEPT !.calls = @ + 1,
                                     !.session[i] =
                                        IF op = "delete" /\ seen = NoId
                                        THEN [pc |-> "idle", path |-> path, seen |-> seen, ret |-> "False"]
                                        ELSE [pc |-> op, path |-> path, seen |-> seen, ret |-> "None"]]

IndexSelect(i, path) == Select("index", i, path)

DeleteSelect(i, path) == Select("delete", i, path)

\* index_file, lines 192-229: commit inserts the new row, or updates the row
\* read; an IntegrityError or a StaleDataError is rolled back and raised
IndexCommit(i) ==
    /\ sess.session[i].pc = "index"
    /\ LET me == sess.session[i]
       IN  IF me.seen = NoId
           THEN \E rows \in { Insert(sess.rows, sess.next_id, me.path) } :
                  sess' = [sess EXCEPT !.rows = rows,
                                       !.next_id = IF rows = sess.rows THEN @ ELSE @ + 1,
                                       !.session[i] = [me EXCEPT !.pc = "idle",
                                                          !.ret = IF rows = sess.rows THEN "IntegrityError" ELSE "row"]]
           ELSE sess' = [sess EXCEPT !.session[i] =
                            [me EXCEPT !.pc = "idle",
                                       !.ret = IF \E r \in sess.rows : r.id = me.seen
                                               THEN "row" ELSE "StaleDataError"]]

\* delete_metadata, lines 261-263: the row read is deleted and committed
DeleteCommit(i) ==
    /\ sess.session[i].pc = "delete"
    /\ LET me == sess.session[i]
       IN  sess' = [sess EXCEPT !.rows = { r \in @ : r.id # me.seen },
                                !.session[i] =
                                    IF ~\E r \in sess.rows : r.id = me.seen
                                    THEN [me EXCEPT !.pc = "idle", !.ret = "StaleDataError"]
                                    ELSE IF me.path \in SessionDirs
                                    THEN [me EXCEPT !.pc = "children"]
                                    ELSE [me EXCEPT !.pc = "idle", !.ret = "True"]]

\* delete_metadata, lines 266-279: the rows under the directory are read,
\* deleted and committed
DeleteChildren(i) ==
    /\ sess.session[i].pc = "children"
    /\ LET me == sess.session[i]
       IN  sess' = [sess EXCEPT !.rows = { r \in @ : ~ColumnStartsWith(r.path, me.path \o <<"/">>) },
                                !.session[i] = [me EXCEPT !.pc = "idle", !.ret = "True"]]

(***************************************************************************)
(* The file operations (src/core/main.py): read_file, write_file,          *)
(* edit_file, create_directory and move_path on the files of one root.     *)
(* A handler runs alone from one await to the next, and the handlers of    *)
(* other requests run in between.  The cache is here the map from path to  *)
(* entry; eviction and cleanup, which only remove entries, are those of    *)
(* the cache section.  The memo is path_memo.                              *)
(***************************************************************************)

\* The most requests in one run
MaxFileCalls == 3

\* The paths requests name, and the entries of the disk beneath the root
FileArgs == { <<"/", "r", "/", "f">>, <<"/", "r", "/", "s", "/", "f">> }
DiskPaths == { <<"/", "r", "/", "f">>, <<"/", "r", "/", "s">>, <<"/", "r", "/", "s", "/", "f">> }

\* What requests write: a, b, ab
FileContents == { <<97>>, <<98>>, <<97, 98>> }

\* The texts edits look for and put in
EditTexts == { <<97>>, <<98>> }

\* The edit lists of a request: one or two edits
EditLists ==
    LET E == [oldText : EditTexts, newText : EditTexts]
    IN  { <<e>> : e \in E } \cup { <<e, g>> : e \in E, g \in E }

\* '\n'
Newline == 10

NoFile == [kind |-> "none", content |-> <<>>, mtime |-> 0]
NoCached == [set |-> FALSE, content |-> <<>>, modified_time |-> 0]
NoHandler == [pc |-> "idle", arg |-> <<>>, path |-> <<>>, content |-> <<>>, mode |-> "none",
              mtime |-> 0, was_new |-> FALSE, had_entry |-> FALSE, refilled |-> FALSE,
              wrote |-> FALSE, edits |-> <<>>, dryRun |-> FALSE]
NoReturn == [op |-> "none", arg |-> <<>>, path |-> <<>>, status |-> "none",
             created |-> FALSE, had_entry |-> FALSE, missing |-> FALSE, applied |-> 0]

NoFileOps == [disk |-> [q \in DiskPaths |-> NoFile], clock |-> 0,
              cache |-> [q \in DiskPaths |-> NoCached],
              calls |-> 0, done |-> 0, ret |-> NoReturn,
              w |-> NoHandler, r |-> NoHandler, e |-> NoHandler]

\* normalize_path(arg): the memoized resolution, or the one computed now
NormalizedPath(arg) ==
    IF path_memo[arg] # NoMemo THEN path_memo[arg] ELSE NormalizeUncached(arg, links).path

\* add_to_file_cache(path, content, mtime), lines 325-365
CachePut(cache, path, content, mtime) ==
    IF Oversized(content) THEN cache
    ELSE [cache EXCEPT ![path] = [set |-> TRUE, content |-> content, modified_time |-> mtime]]

\* invalidate_cache_for_path(path), lines 391-414
CacheDrop(cache, path) ==
    [q \in DOMAIN cache |-> IF Invalidated(q, path) THEN NoCached ELSE cache[q]]

\* get_from_file_cache(path, mtime), lines 367-389: a fresh entry is a hit, a
\* stale one is removed
CacheHit(cache, path, mtime) == cache[path].set /\ IsFresh(cache[path], mtime)

CacheAfterGet(cache, path, mtime) ==
    IF cache[path].set /\ ~IsFresh(cache[path], mtime)
    THEN [cache EXCEPT ![path] = NoCached] ELSE cache

\* path.parent.mkdir(parents=True, exist_ok=True)
MkParents(disk, path) ==
    [q \in DOMAIN disk |->
        IF Beneath(path, q) /\ disk[q].kind = "none"
        THEN [kind |-> "dir", content |-> <<>>, mtime |-> 0] ELSE disk[q]]

\* The directories above the path all exist
HasParents(disk, path) ==
    \A q \in DOMAIN disk : Beneath(path, q) => disk[q].kind = "dir"

\* A handler ends: its return or its error is recorded
Return(f, op, h, status, created) ==
    [f EXCEPT !.done = @ + 1,
              !.ret = [op |-> op, arg |-> h.arg, path |-> h.path, status |-> status,
                       created |-> created, had_entry |-> h.had_entry, missing |-> FALSE,
                       applied |-> 0]]

\* Another handler caches the file while write_file is between its
\* invalidation and its end
Refill(f, path) ==
    IF f.w.pc # "idle" /\ f.w.path = path THEN [f EXCEPT !.w.refilled = TRUE] ELSE f

\* write_file, lines 1026-1089: what the file holds after the write
Combined(mode, current, content) ==
    IF mode = "append"
    THEN IF current # <<>> /\ current[Len(current)] # Newline
         THEN current \o <<Newline>> \o content
         ELSE current \o content
    ELSE content

\* write_file restoring nothing but caching what it failed to write
CacheAfterFailedWriteFilled(cache, path, content, mtime) == CachePut(cache, path, content, mtime)

\* write_file, lines 1090-1093 and 1127-1131: after a failed write the cache
\* is left as it is
CacheAfterFailedWrite(cache, path, content, mtime) == cache

\* write_file, lines 1010-1024: the path is normalized, the parent
\* directories are made, the cache entry of the path is invalidated
WriteBegin(arg, content, mode) ==
    /\ fileop.calls < MaxFileCalls
    /\ fileop.w.pc = "idle"
    /\ NormalizePath(arg)
    /\ \E path \in { NormalizedPath(arg) } :
         fileop' = [fileop EXCEPT
                       !.calls = @ + 1,
                       !.disk = MkParents(@, path),
                       !.cache = CacheDrop(@, path),
                       !.w = [NoHandler EXCEPT !.pc = "disk", !.arg = arg, !.path = path,
                                               !.content = content, !.mode = mode,
                                               !.was_new = fileop.disk[path].kind = "none",
                                               !.had_entry = fileop.cache[path].set]]

\* write_file, lines 1026-1093: the file is opened and written; an error of
\* the open leaves the file as it was, an error of the write leaves it
\* truncated, and either ends the handler with an error
WriteDisk(outcome) ==
    /\ fileop.w.pc = "disk"
    /\ LET h == fileop.w
           old == fileop.disk[h.path]
       IN  IF old.kind = "dir" \/ ~HasParents(fileop.disk, h.path) \/ outcome = "open_fails"
           THEN fileop' = Return([fileop EXCEPT !.w = NoHandler,
                                                !.cache = CacheAfterFailedWrite(@, h.path, h.content, old.mtime)],
                                 "write_file", h, "error", FALSE)
           ELSE IF outcome = "write_fails"
           THEN fileop' = Return([fileop EXCEPT !.w = NoHandler,
                                                !.clock = @ + 1,
                                                !.disk[h.path] = [kind |-> "file", content |-> <<>>,
                                                                  mtime |-> fileop.clock + 1],
                                                !.cache = CacheAfterFailedWrite(@, h.path, h.content,
                                                                                fileop.clock + 1)],
                                 "write_file", h, "error", FALSE)
           ELSE fileop' = [fileop EXCEPT !.clock = @ + 1,
                                         !.disk[h.path] = [kind |-> "file",
                                                           content |-> Combined(h.mode, old.content, h.content),
                                                           mtime |-> fileop.clock + 1],
                                         !.w.pc = "end", !.w.wrote = TRUE]
    /\ UNCHANGED pathVars

\* write_file, lines 1095-1124: the written content is cached with the
\* file's modification time; the memo is cleared when the path does not
\* exist
WriteEnd ==
    /\ fileop.w.pc = "end"
    /\ LET h == fileop.w
           now_on_disk == fileop.disk[h.path]
       IN  /\ fileop' = Return([fileop EXCEPT
                                   !.w = NoHandler,
                                   !.cache = CachePut(@, h.path,
                                                      IF h.mode = "append" THEN now_on_disk.content
                                                      ELSE h.content,
                                                      now_on_disk.mtime)],
                               "write_file", h, "ok", h.was_new)
           /\ IF now_on_disk.kind = "none" THEN CacheClear ELSE UNCHANGED pathVars

\* read_file, lines 873-926: the file's modification time is read and the
\* cache is asked; a hit is returned
ReadBegin(arg) ==
    /\ fileop.calls < MaxFileCalls
    /\ fileop.r.pc = "idle"
    /\ NormalizePath(arg)
    /\ \E path \in { NormalizedPath(arg) } :
         LET h == [NoHandler EXCEPT !.arg = arg, !.path = path, !.mtime = fileop.disk[path].mtime]
             f == [fileop EXCEPT !.calls = @ + 1]
         IN  IF fileop.disk[path].kind # "file"
             THEN fileop' = Return(f, "read_file", h, "error", FALSE)
             ELSE IF CacheHit(fileop.cache, path, h.mtime)
             THEN fileop' = Return(f, "read_file", h, "ok", FALSE)
             ELSE fileop' = [f EXCEPT !.cache = CacheAfterGet(@, path, h.mtime),
                                      !.r = [h EXCEPT !.pc = "read"]]

\* read_file, lines 928-945: the file is read and cached with the
\* modification time read before
ReadEnd ==
    /\ fileop.r.pc = "read"
    /\ LET h == fileop.r
           on_disk == fileop.disk[h.path]
       IN  IF on_disk.kind # "file"
           THEN fileop' = Return([fileop EXCEPT !.r = NoHandler], "read_file", h, "error", FALSE)
           ELSE fileop' = Return(Refill([fileop EXCEPT !.r = NoHandler,
                                                       !.cache = CachePut(@, h.path, on_disk.content, h.mtime)],
                                        h.path),
                                 "read_file", h, "ok", FALSE)
    /\ UNCHANGED pathVars

\* str.replace(old, new, 1)
ReplaceFirst(s, old, new) ==
    LET i == CHOOSE k \in 1..Len(s) :
                 /\ k + Len(old) - 1 <= Len(s)
                 /\ SubSeq(s, k, k + Len(old) - 1) = old
                 /\ \A j \in 1..(k - 1) : ~(j + Len(old) - 1 <= Len(s) /\ SubSeq(s, j, j + Len(old) - 1) = old)
    IN  SubSeq(s, 1, i - 1) \o new \o SubSeq(s, i + Len(old), Len(s))

RECURSIVE ApplyEditsFrom(_, _, _)
\* edit_file, lines 1212-1221: the edits are applied in turn to the content
\* in memory; the first whose oldText is not found raises
ApplyEditsFrom(content, edits, applied) ==
    IF edits = <<>> THEN [ok |-> TRUE, content |-> content, applied |-> applied]
    ELSE IF ~Contains(content, Head(edits).oldText)
    THEN [ok |-> FALSE, content |-> content, applied |-> applied]
    ELSE ApplyEditsFrom(ReplaceFirst(content, Head(edits).oldText, Head(edits).newText),
                        Tail(edits), applied + 1)

ApplyEdits(content, edits) == ApplyEditsFrom(content, edits, 0)

\* edit_file writing the content it has when an edit is not found
EditApplyWritingEach(f, h, original, edits, dryRun) ==
    LET applied == ApplyEdits(original, edits)
    IN  IF ~applied.ok
        THEN [Return([f EXCEPT !.e = NoHandler,
                               !.disk[h.path] = [@ EXCEPT !.content = applied.content]],
                     "edit_file", h, "error", FALSE)
                 EXCEPT !.ret.missing = TRUE, !.ret.applied = applied.applied]
        ELSE IF dryRun
        THEN Return([f EXCEPT !.e = NoHandler], "edit_file", h, "ok", FALSE)
        ELSE [f EXCEPT !.cache = CacheDrop(@, h.path),
                       !.e = [h EXCEPT !.pc = "disk", !.content = applied.content]]

\* edit_file, lines 1211-1237: with the original content in hand the edits
\* are applied; a dry run returns, and otherwise the cache entry is
\* invalidated before the file is opened for writing
EditApply(f, h, original, edits, dryRun) ==
    LET applied == ApplyEdits(original, edits)
    IN  IF ~applied.ok
        THEN [Return([f EXCEPT !.e = NoHandler], "edit_file", h, "error", FALSE)
                 EXCEPT !.ret.missing = TRUE, !.ret.applied = applied.applied]
        ELSE IF dryRun
        THEN Return([f EXCEPT !.e = NoHandler], "edit_file", h, "ok", FALSE)
        ELSE [f EXCEPT !.cache = CacheDrop(@, h.path),
                       !.e = [h EXCEPT !.pc = "disk", !.content = applied.content]]

\* edit_file, lines 1181-1197: the file's modification time is read and the
\* cache is asked; with a hit the edits are applied at once
EditBegin(arg, edits, dryRun) ==
    /\ fileop.calls < MaxFileCalls
    /\ fileop.e.pc = "idle"
    /\ NormalizePath(arg)
    /\ \E path \in { NormalizedPath(arg) } :
         LET h == [NoHandler EXCEPT !.arg = arg, !.path = path, !.mtime = fileop.disk[path].mtime,
                                    !.edits = edits, !.dryRun = dryRun,
                                    !.had_entry = fileop.cache[path].set]
             f == [fileop EXCEPT !.calls = @ + 1]
         IN  IF fileop.disk[path].kind = "none"
             THEN fileop' = Return(f, "edit_file", h, "error", FALSE)
             ELSE IF CacheHit(fileop.cache, path, h.mtime)
             THEN fileop' = EditApply(f, h, fileop.cache[path].content, edits, dryRun)
             ELSE fileop' = [f EXCEPT !.cache = CacheAfterGet(@, path, h.mtime),
                                      !.e = [h EXCEPT !.pc = "read"]]

\* edit_file, lines 1198-1237: the file is read and cached, and the edits
\* are applied
EditRead ==
    /\ fileop.e.pc = "read"
    /\ LET h == fileop.e
           on_disk == fileop.disk[h.path]
       IN  IF on_disk.kind # "file"
           THEN fileop' = Return([fileop EXCEPT !.e = NoHandler], "edit_file", h, "error", FALSE)
           ELSE fileop' = EditApply(Refill([fileop EXCEPT !.cache = CachePut(@, h.path, on_disk.content, h.mtime)],
                                           h.path),
                                    h, on_disk.content, h.edits, h.dryRun)
    /\ UNCHANGED pathVars

\* edit_file, lines 1239-1246: the edited content is written
EditDisk(outcome) ==
    /\ fileop.e.pc = "disk"
    /\ LET h == fileop.e
           old == fileop.disk[h.path]
       IN  IF old.kind = "dir" \/ ~HasParents(fileop.disk, h.path) \/ outcome = "open_fails"
           THEN fileop' = Return([fileop EXCEPT !.e = NoHandler], "edit_file", h, "error", FALSE)
           ELSE IF outcome = "write_fails"
           THEN fileop' = Return([fileop EXCEPT !.e = NoHandler,
                                                !.clock = @ + 1,
                                                !.disk[h.path] = [kind |-> "file", content |-> <<>>,
                                                                  mtime |-> fileop.clock + 1]],
                                 "edit_file", h, "error", FALSE)
           ELSE fileop' = [fileop EXCEPT !.clock = @ + 1,
                                         !.disk[h.path] = [kind |-> "file", content |-> h.content,
                                                           mtime |-> fileop.clock + 1],
                                         !.e.pc = "end", !.e.wrote = TRUE]
    /\ UNCHANGED pathVars

\* edit_file, lines 1248-1262: the edited content is cached
EditEnd ==
    /\ fileop.e.pc = "end"
    /\ LET h == fileop.e
       IN  fileop' = Return(Refill([fileop EXCEPT !.e = NoHandler,
                                                  !.cache = CachePut(@, h.path, h.content,
                                                                     fileop.disk[h.path].mtime)],
                                   h.path),
                            "edit_file", h, "ok", FALSE)
    /\ UNCHANGED pathVars

\* create_directory, lines 1307-1328: the directory and its parents are
\* made; the memo is left as it is
CreateDirectory(arg) ==
    /\ fileop.calls < MaxFileCalls
    /\ NormalizePath(arg)
    /\ \E path \in { NormalizedPath(arg) } :
         LET h == [NoHandler EXCEPT !.arg = arg, !.path = path]
             f == [fileop EXCEPT !.calls = @ + 1]
         IN  IF fileop.disk[path].kind = "file"
             THEN fileop' = Return(f, "create_directory", h, "error", FALSE)
             ELSE fileop' = Return([f EXCEPT !.disk = [MkParents(@, path) EXCEPT
                                                          ![path] = [kind |-> "dir", content |-> <<>>,
                                                                     mtime |-> @.mtime]]],
                                   "create_directory", h, "ok", fileop.disk[path].kind = "none")

\* move_path, lines 1764-1782: the source is renamed to the destination,
\* the cache entries of both are invalidated and the memo is cleared.  The
\* destination is not a directory: the file would be moved into it.
MovePath(source_arg, destination_arg) ==
    /\ fileop.calls < MaxFileCalls
    /\ \E source \in { NormalizedPath(source_arg) }, destination \in { NormalizedPath(destination_arg) } :
         LET h == [NoHandler EXCEPT !.arg = destination_arg, !.path = destination]
             f == [fileop EXCEPT !.calls = @ + 1]
         IN  /\ fileop.disk[destination].kind # "dir"
             /\ source # destination
             /\ IF fileop.disk[source].kind = "none" \/ ~HasParents(fileop.disk, destination)
                THEN /\ fileop' = Return([f EXCEPT !.cache = IF fileop.disk[source].kind = "none" THEN @
                                                             ELSE CacheDrop(@, source)],
                                         "move_path", h, "error", FALSE)
                     /\ path_memo' = [path_memo EXCEPT ![source_arg] = source,
                                                       ![destination_arg] = destination]
                ELSE /\ fileop' = Return([f EXCEPT !.disk = [@ EXCEPT ![destination] = fileop.disk[source],
                                                                      ![source] = NoFile],
                                                   !.cache = CacheDrop(CacheDrop(@, source), destination)],
                                         "move_path", h, "ok", TRUE)
                     /\ path_memo' = [p \in PathArgs |-> NoMemo]
             /\ path_ret' = [arg |-> destination_arg, kind |-> "path", path |-> destination,
                             memo |-> path_memo[destination_arg] # NoMemo]
             /\ UNCHANGED links

(***************************************************************************)
(* The recursive passes over one watched directory (src/utils/watcher.py,  *)
(* src/api/metadata_api.py): delayed_recursive_scan, the directories of    *)
(* _process_modified_paths, _scan_directories from the loop and from the   *)
(* scan request, and indexing_locks.  Each pass is an interval: it begins, *)
(* awaits the store, and ends.                                             *)
(***************************************************************************)

MaxWatches == 2     \* watch_directory calls, each creating a delayed scan
ScanIds == 1..MaxWatches
LockIds == 1..(2 * MaxWatches)
NoLock == 0

\* A delayed_recursive_scan task that was not created
NoScan == [pc |-> "none", lock |-> NoLock]

\* Nothing is watched: no lock in indexing_locks, no task
NoIndexing == [watched |-> FALSE, due |-> FALSE, modified |-> FALSE,
               table |-> NoLock, locks |-> 0, held |-> {},
               scan |-> [t \in ScanIds |-> NoScan], scans |-> 0,
               loop |-> [pc |-> "idle", lock |-> NoLock],
               api |-> [pc |-> "idle", lock |-> NoLock]]

\* lines 86-93 and 337-344: the lock of the directory in indexing_locks,
\* created when the table holds none
LockOf(i) == IF i.table # NoLock THEN i.table ELSE i.locks + 1

WithLock(i) ==
    IF i.table # NoLock THEN i ELSE [i EXCEPT !.table = i.locks + 1, !.locks = @ + 1]

\* The tasks inside a recursive pass over the directory
Passes(i) ==
    { <<"scan", t>> : t \in { t \in ScanIds : i.scan[t].pc = "indexing" } }
        \cup (IF i.loop.pc \in { "pending", "scanning" } THEN { <<"loop", 0>> } ELSE {})
        \cup (IF i.api.pc \in { "pending", "scanning" } THEN { <<"api", 0>> } ELSE {})

\* watch_directory, lines 54-67: the directory is watched, a
\* delayed_recursive_scan task is created, the scan time is set
WatchPass ==
    /\ indexing.scans < MaxWatches
    /\ indexing' = [indexing EXCEPT !.watched = TRUE, !.due = FALSE,
                                    !.scans = @ + 1,
                                    !.scan[indexing.scans + 1] = [pc |-> "created", lock |-> NoLock]]

\* unwatch_directory of the only watched directory, with stop_watcher: the
\* loop task is cancelled at its await, a lock it holds is released, and
\* indexing_locks is cleared (lines 159-167, 521-539)
UnwatchPass ==
    /\ indexing.watched
    /\ indexing' = [indexing EXCEPT !.watched = FALSE, !.due = TRUE,
                                    !.held = @ \ { indexing.loop.lock },
                                    !.loop = [pc |-> "idle", lock |-> NoLock],
                                    !.table = NoLock]

\* delayed_recursive_scan, lines 85-96: the lock is looked up or created; the
\* task takes it, or waits for it
ScanStart(t) ==
    /\ indexing.scan[t].pc = "created"
    /\ LockOf(indexing) \in LockIds
    /\ LET i == WithLock(indexing)
       IN  indexing' = IF i.table \in i.held
                       THEN [i EXCEPT !.scan[t] = [pc |-> "waiting", lock |-> i.table]]
                       ELSE [i EXCEPT !.scan[t] = [pc |-> "sleeping", lock |-> i.table],
                                      !.held = @ \cup { i.table }]

\* delayed_recursive_scan, line 96: the lock it waited for is released
ScanAcquire(t) ==
    /\ indexing.scan[t].pc = "waiting"
    /\ indexing.scan[t].lock \notin indexing.held
    /\ indexing' = [indexing EXCEPT !.scan[t].pc = "sleeping",
                                    !.held = @ \cup { indexing.scan[t].lock }]

\* delayed_recursive_scan, lines 99-136: the sleep is over, the directory is
\* indexed, its entries first and then recursively
ScanWake(t) ==
    /\ indexing.scan[t].pc = "sleeping"
    /\ indexing' = [indexing EXCEPT !.scan[t].pc = "indexing"]

\* delayed_recursive_scan, lines 136-144: the pass ends, the scan time is
\* set and the lock released
ScanEnd(t) ==
    /\ indexing.scan[t].pc = "indexing"
    /\ indexing' = [indexing EXCEPT !.scan[t] = [pc |-> "done", lock |-> NoLock],
                                    !.held = @ \ { indexing.scan[t].lock },
                                    !.due = FALSE]

\* notify_change for the directory: it joins modified_paths
NotifyDir ==
    /\ ~indexing.modified
    /\ indexing' = [indexing EXCEPT !.modified = TRUE]

\* SCAN_INTERVAL has passed since the last scan
Elapse ==
    /\ ~indexing.due
    /\ indexing' = [indexing EXCEPT !.due = TRUE]

\* _process_modified_paths, lines 274-360, for the task who (the loop or the
\* scan request): modified_paths is emptied; the directory is indexed
\* recursively under its lock, or passed over when the lock is held
PendingBegin(i, who) ==
    IF ~i.modified THEN [i EXCEPT ![who] = [pc |-> "idle", lock |-> NoLock]]
    ELSE LET j == WithLock([i EXCEPT !.modified = FALSE])
         IN  IF j.table \in j.held
             THEN [j EXCEPT ![who] = [pc |-> "idle", lock |-> NoLock]]
             ELSE [j EXCEPT ![who] = [pc |-> "pending", lock |-> j.table],
                            !.held = @ \cup { j.table }]

\* _process_modified_paths, lines 360-368: the pass ends, the lock is released
PendingEnd(i, who) ==
    [i EXCEPT ![who] = [pc |-> "idle", lock |-> NoLock], !.held = @ \ { i[who].lock }]

\* _watcher_loop, lines 454-455
LoopPendingBegin ==
    /\ indexing.watched
    /\ indexing.loop.pc = "idle"
    /\ indexing.modified
    /\ LockOf(indexing) \in LockIds
    /\ indexing' = PendingBegin(indexing, "loop")

LoopPendingEnd ==
    /\ indexing.loop.pc = "pending"
    /\ indexing' = PendingEnd(indexing, "loop")

\* _watcher_loop, lines 459-460, with _scan_directories, lines 222-254: the
\* directory is due, and index_directory_recursive is called
LoopScanBegin ==
    /\ indexing.watched
    /\ indexing.loop.pc = "idle"
    /\ indexing.due
    /\ indexing' = [indexing EXCEPT !.loop.pc = "scanning"]

\* _scan_directories, lines 254-258
LoopScanEnd ==
    /\ indexing.loop.pc = "scanning"
    /\ indexing' = [indexing EXCEPT !.loop.pc = "idle", !.due = FALSE]

\* scan_watched_directories of the metadata API, lines 545-558: with force
\* the scan time is set back; _scan_directories indexes the directory when
\* it is due, and _process_modified_paths follows (line 561)
ApiScanBegin(force) ==
    /\ indexing.watched
    /\ indexing.api.pc = "idle"
    /\ LockOf(indexing) \in LockIds
    /\ indexing' = IF force \/ indexing.due
                   THEN [indexing EXCEPT !.api.pc = "scanning", !.due = TRUE]
                   ELSE PendingBegin(indexing, "api")

\* _scan_directories, lines 254-258, then _process_modified_paths
ApiScanEnd ==
    /\ indexing.api.pc = "scanning"
    /\ LockOf(indexing) \in LockIds
    /\ indexing' = PendingBegin([indexing EXCEPT !.due = FALSE], "api")

ApiPendingEnd ==
    /\ indexing.api.pc = "pending"
    /\ indexing' = PendingEnd(indexing, "api")

\* The components of the later sections, before anything is asked of them
MoreIdle ==
    /\ search = NoSearch
    /\ life = NoLife
    /\ sess = NoSessions
    /\ fileop = NoFileOps
    /\ matcher = NoAnswer
    /\ default_matcher = Constructed(TRUE, IgnoreFileLines)
    /\ indexing = NoIndexing

(***************************************************************************)
(* Specifications                                                          *)
(***************************************************************************)

Init ==
    /\ now = 0
    /\ CacheInit
    /\ PathInit
    /\ StoreIdle
    /\ WatcherIdle
    /\ MoreIdle

\* SpecCache: two paths, every content and modification time.
TwoPaths == { <<"/", "a", "/", "b">>, <<"/", "a", "/", "b", "/", "c">> }

AddAny == CacheAdd(TwoPaths, Contents, Mtimes)
GetAny == CacheGet(TwoPaths, Mtimes)
InvalidateAny == CacheInvalidate(TwoPaths)

NextCache == AddAny \/ GetAny \/ InvalidateAny \/ Tick

SpecCache == Init /\ [][NextCache]_vars

\* SpecCleanup: cleanup_cache is called on its own between puts and gets of
\* two paths; the clock goes past the staleness window.
MaxCleanupTime == 2

AddOne == CacheAdd(TwoPaths, {<<97>>}, {1})
GetOne == CacheGet(TwoPaths, {1})
CleanupAny ==
    /\ \E disk \in [CacheKeys(file_cache) -> ExistsObs] : CleanupCacheCall(disk)
    /\ UNCHANGED notCacheVars
TickLate ==
    /\ now < MaxCleanupTime
    /\ now' = now + 1
    /\ UNCHANGED <<cacheVars, notCacheVars>>

NextCleanup == AddOne \/ GetOne \/ CleanupAny \/ TickLate

SpecCleanup == Init /\ [][NextCleanup]_vars

\* SpecCacheKeys: one key more than the cache holds, one modification time.
AddKey == CacheAdd(CachePaths, {<<97>>, <<233>>}, {1})
GetKey == CacheGet(CachePaths, {1})
InvalidateKey == CacheInvalidate(CachePaths)

NextCacheKeys == AddKey \/ GetKey \/ InvalidateKey \/ Tick

SpecCacheKeys == Init /\ [][NextCacheKeys]_vars


\* SpecStore: index_file and delete_metadata on the paths of the store
InitStore ==
    /\ now = 0
    /\ CacheInit
    /\ PathInit
    /\ fs = FullTree(StorePaths, StoreDirs)
    /\ db = [p \in StorePaths |-> NoRow]
    /\ store_ret = NoCall
    /\ WatcherIdle
    /\ MoreIdle

IndexOne == \E p \in StorePaths : IndexFileCall(p)
DeleteOne == \E p \in StorePaths : DeleteMetadataCall(p)

NextStore == IndexOne \/ DeleteOne

SpecStore == InitStore /\ [][NextStore]_vars

\* SpecKinds: index_file and delete_metadata while files and directories
\* take one another's place on disk
KindPaths == { <<"/", "a", "/", "x", "/", "y">>, <<"/", "a", "b">>, <<"/", "a", "%", "b", "/", "c">> }
IndexKind == \E p \in KindPaths : IndexFileCall(p)
DeleteKind == \E p \in KindPaths : DeleteMetadataCall(p)
SwapOne == \E p \in KindPaths : ExtSwapKind(p)

NextKinds == IndexKind \/ DeleteKind \/ SwapOne

SpecKinds == InitStore /\ [][NextKinds]_vars

\* SpecGone: index_file and delete_metadata on a directory, a directory in
\* it and a file in that one, which are removed from disk
GonePaths == { <<"/", "a">>, <<"/", "a", "/", "x">>, <<"/", "a", "/", "x", "/", "y">> }
IndexGone == \E p \in GonePaths : IndexFileCall(p)
DeleteGone == \E p \in GonePaths : DeleteMetadataCall(p)
RemoveGone == \E p \in GonePaths : ExtRemove(p)

NextGone == IndexGone \/ DeleteGone \/ RemoveGone

SpecGone == InitStore /\ [][NextGone]_vars

\* SpecIndex: index_directory_recursive on the tree, whose files change
InitIndex ==
    /\ now = 0
    /\ CacheInit
    /\ PathInit
    /\ fs = FullTree(TreePaths, TreeDirs)
    /\ db = [p \in TreePaths |-> NoRow]
    /\ store_ret = NoCall
    /\ WatcherIdle
    /\ MoreIdle

IndexTree == \E root \in TreePaths : IndexDirectoryRecursiveCall(root, NoLimit, DEFAULT_MAX_DEPTH)
TouchFile == \E p \in { <<"/", "r", "/", "f">>, <<"/", "r", "/", "s", "/", "g">> } : Touch(p)

NextIndex == IndexTree \/ TouchFile \/ Tick

SpecIndex == InitIndex /\ [][NextIndex]_vars

\* SpecWatcher: /r is watched and the loop runs its cycles; a directory and a
\* file come and go beneath /r, with and without a notification.  The clock
\* stands still.  The initial state is one of the two watch_directory(/r) leads to:
\* /r was watched just now, its row written, its delayed scan pending and its
\* next scan not due; or /r was watched SCAN_INTERVAL ago, its delayed scan
\* has run and its next scan is due.  In both the loop is about to begin.
InitWatcher ==
    /\ now = 0
    /\ CacheInit
    /\ PathInit
    /\ \/ /\ last_scan_times = [d \in {WatchedDir} |-> 0]
          /\ scan_task = [d \in {WatchedDir} |-> "pending"]
       \/ /\ last_scan_times = [d \in {WatchedDir} |-> -SCAN_INTERVAL]
          /\ scan_task = [d \in {WatchedDir} |-> "none"]
    /\ fs = [p \in WatchPaths |->
                IF p \in { <<"/">>, WatchedDir }
                THEN [kind |-> "dir", mtime |-> -SCAN_INTERVAL, size |-> 1]
                ELSE NoEntry]
    /\ db = [p \in WatchPaths |->
                IF p = WatchedDir
                THEN [present |-> TRUE, is_directory |-> TRUE, size_bytes |-> NoSize,
                      modified_time |-> -SCAN_INTERVAL,
                      last_indexed |-> last_scan_times[WatchedDir]]
                ELSE NoRow]
    /\ store_ret = NoCall
    /\ watched_directories = {WatchedDir}
    /\ modified_paths = {}
    /\ path_change_queue = <<>>
    /\ watcher_running = TRUE
    /\ loop = [pc |-> "top", cycles |-> 0]
    /\ owed = [f \in NotifiedFiles |-> 0]
    /\ MoreIdle

Notify == \E p \in ComingAndGoing : NotifyChange(p)
Create == \E p \in ComingAndGoing : ExtCreate(p)
Remove == \E p \in ComingAndGoing : ExtRemove(p)
ScanRequest == \E path \in {NoPath, WatchedDir, <<"/", "r", "/", "s">>}, force \in BOOLEAN :
                    ScanWatchedDirectoriesCall(path, force)
DelayedScanSleeps == DelayedScanSleep(WatchedDir)
DelayedScanRuns == DelayedScanRun(WatchedDir)

NextWatcher ==
    \/ Notify \/ Create \/ Remove \/ ScanRequest
    \/ DelayedScanSleeps \/ DelayedScanRuns
    \/ LoopTop \/ LoopQueue \/ LoopModified \/ LoopScan

SpecWatcher == InitWatcher /\ [][NextWatcher]_vars

\* SpecQueue: the changes are notified with each call recorded, and the loop
\* runs its cycles.
NotifyCalls == \E p \in ComingAndGoing : NotifyChangeCall(p)

NextQueue == NotifyCalls \/ Create \/ LoopTop \/ LoopQueue \/ LoopModified \/ LoopScan

SpecQueue == InitWatcher /\ [][NextQueue]_vars

\* SpecCycle: the loop with steps that raise and with its cancellation
LoopRaises == \E exc \in LoopExceptions : LoopRaise(exc)

NextCycle ==
    \/ NotifyCalls \/ Create
    \/ LoopTop \/ LoopQueue \/ LoopModified \/ LoopScan \/ LoopRaises

SpecCycle == InitWatcher /\ [][NextCycle]_vars

\* SpecSearch: a table of five rows that does not change, walked in any
\* one order; a client pages through searches.
InitSearch ==
    /\ now = 0
    /\ CacheInit
    /\ PathInit
    /\ WatcherIdle
    /\ fs = FullTree(SearchRows, StoreDirs)
    /\ db = [p \in StorePaths |->
                IF p \in SearchRows
                THEN [present |-> TRUE, is_directory |-> p \in StoreDirs,
                      size_bytes |-> IF p \in StoreDirs THEN NoSize ELSE Len(p) - 3,
                      modified_time |-> 0, last_indexed |-> 0]
                ELSE NoRow]
    /\ store_ret = NoCall
    /\ \E o \in Orders(SearchRows) : search = [NoSearch EXCEPT !.order = o]
    /\ life = NoLife
    /\ sess = NoSessions
    /\ fileop = NoFileOps
    /\ matcher = NoAnswer
    /\ default_matcher = Constructed(TRUE, IgnoreFileLines)
    /\ indexing = NoIndexing

SearchStart == \E f \in SearchFilters, limit \in SearchLimits :
                    SearchFirst(f, limit) /\ UNCHANGED <<now, notSearchVars>>
SearchPage == SearchNext /\ UNCHANGED <<now, notSearchVars>>

NextSearch == SearchStart \/ SearchPage

SpecSearch == InitSearch /\ [][NextSearch]_vars

\* SpecLife: up to MaxCalls calls of watch_directory, unwatch_directory,
\* stop_watcher and notify_change, in any order and overlapping at their
\* awaits, and the tasks they create.
InitLife ==
    /\ now = 0
    /\ CacheInit
    /\ PathInit
    /\ StoreIdle
    /\ WatcherIdle
    /\ MoreIdle

Watches == WatchBegin /\ UNCHANGED <<now, notLifeVars>>
WatchReturns == \E indexed \in BOOLEAN : WatchEnd(indexed) /\ UNCHANGED <<now, notLifeVars>>
StartRuns == StartRun /\ UNCHANGED <<now, notLifeVars>>
StartResumes == StartResume /\ UNCHANGED <<now, notLifeVars>>
Notifies == NotifyStart /\ UNCHANGED <<now, notLifeVars>>
Unwatches == UnwatchCall /\ UNCHANGED <<now, notLifeVars>>
Stops == StopCall /\ UNCHANGED <<now, notLifeVars>>
LockGrants == LockGrant /\ UNCHANGED <<now, notLifeVars>>
StopResumes == StopResume /\ UNCHANGED <<now, notLifeVars>>
TaskStarts == \E t \in TaskIds : TaskStart(t) /\ UNCHANGED <<now, notLifeVars>>
TaskEnds == \E t \in TaskIds : TaskEnd(t) /\ UNCHANGED <<now, notLifeVars>>

NextLife ==
    \/ Watches \/ WatchReturns \/ StartRuns \/ StartResumes \/ Notifies
    \/ Unwatches \/ Stops \/ LockGrants \/ StopResumes \/ TaskStarts \/ TaskEnds

SpecLife == InitLife /\ [][NextLife]_vars

\* SpecLifeFair: the same with no stop_watcher called on its own, and with
\* the event loop's scheduling: a call or a task that is ready runs.
NextLifeFair ==
    \/ Watches \/ WatchReturns \/ StartRuns \/ StartResumes \/ Notifies
    \/ Unwatches \/ LockGrants \/ StopResumes \/ TaskStarts \/ TaskEnds

LifeFairness ==
    /\ WF_vars(WatchReturns)
    /\ WF_vars(StartRuns)
    /\ WF_vars(StartResumes)
    /\ WF_vars(LockGrants)
    /\ WF_vars(StopResumes)
    /\ \A t \in TaskIds : WF_vars(TaskStart(t) /\ UNCHANGED <<now, notLifeVars>>)
    /\ \A t \in TaskIds : WF_vars(TaskEnd(t) /\ UNCHANGED <<now, notLifeVars>>)

SpecLifeFair == InitLife /\ [][NextLifeFair]_vars /\ LifeFairness

\* SpecSessions: up to MaxStoreCalls calls of index_file and
\* delete_metadata from two tasks, each in its own session, interleaved at
\* their awaits.
InitSessions ==
    /\ now = 0
    /\ CacheInit
    /\ PathInit
    /\ StoreIdle
    /\ WatcherIdle
    /\ MoreIdle

IndexSelects == \E i \in Sessions, path \in SessionPaths : IndexSelect(i, path) /\ UNCHANGED <<now, notSessVars>>
IndexCommits == \E i \in Sessions : IndexCommit(i) /\ UNCHANGED <<now, notSessVars>>
DeleteSelects == \E i \in Sessions, path \in SessionPaths : DeleteSelect(i, path) /\ UNCHANGED <<now, notSessVars>>
DeleteCommits == \E i \in Sessions : DeleteCommit(i) /\ UNCHANGED <<now, notSessVars>>
DeleteChildrens == \E i \in Sessions : DeleteChildren(i) /\ UNCHANGED <<now, notSessVars>>

NextSessions == IndexSelects \/ IndexCommits \/ DeleteSelects \/ DeleteCommits \/ DeleteChildrens

SpecSessions == InitSessions /\ [][NextSessions]_vars

\* SpecFiles: up to MaxFileCalls requests to read_file, write_file,
\* edit_file, create_directory and move_path, their handlers interleaved at
\* their awaits; a write to the disk succeeds, fails at the open or fails
\* after it truncated the file.
WriteOutcomes == { "ok", "open_fails", "write_fails" }

InitFiles ==
    /\ now = 0
    /\ CacheInit
    /\ PathInit
    /\ StoreIdle
    /\ WatcherIdle
    /\ MoreIdle

WriteBegins ==
    \E arg \in FileArgs, content \in FileContents, mode \in { "overwrite", "append" } :
        WriteBegin(arg, content, mode) /\ UNCHANGED <<now, notFileVars>>
WriteDisks == \E outcome \in WriteOutcomes : WriteDisk(outcome) /\ UNCHANGED <<now, notFileVars>>
WriteEnds == WriteEnd /\ UNCHANGED <<now, notFileVars>>
ReadBegins == \E arg \in FileArgs : ReadBegin(arg) /\ UNCHANGED <<now, notFileVars>>
ReadEnds == ReadEnd /\ UNCHANGED <<now, notFileVars>>
EditBegins ==
    \E arg \in FileArgs, edits \in EditLists, dryRun \in BOOLEAN :
        EditBegin(arg, edits, dryRun) /\ UNCHANGED <<now, notFileVars>>
EditReads == EditRead /\ UNCHANGED <<now, notFileVars>>
EditDisks == \E outcome \in WriteOutcomes : EditDisk(outcome) /\ UNCHANGED <<now, notFileVars>>
EditEnds == EditEnd /\ UNCHANGED <<now, notFileVars>>
CreateDirectories == \E arg \in FileArgs : CreateDirectory(arg) /\ UNCHANGED <<now, notFileVars>>
MovePaths ==
    \E source_arg \in FileArgs, destination_arg \in FileArgs :
        MovePath(source_arg, destination_arg) /\ UNCHANGED <<now, notFileVars>>

NextFiles ==
    \/ WriteBegins \/ WriteDisks \/ WriteEnds \/ ReadBegins \/ ReadEnds
    \/ EditBegins \/ EditReads \/ EditDisks \/ EditEnds
    \/ CreateDirectories \/ MovePaths

SpecFiles == InitFiles /\ [][NextFiles]_vars

\* SpecIgnore: the ignore file is one of IgnoreFiles, and should_ignore is
\* asked about each path.
Reloads == \E lines \in IgnoreFiles : ReloadPatterns(lines) /\ UNCHANGED <<now, notMatcherVars>>
ShouldIgnores == \E path \in MatcherPaths : ShouldIgnoreCall(path) /\ UNCHANGED <<now, notMatcherVars>>

NextIgnore == Reloads \/ ShouldIgnores

SpecIgnore == Init /\ [][NextIgnore]_vars

\* SpecLimits: the tree is indexed from any root with a limit on the entries
\* or on the depth, and the rows of a subtree are deleted again.
MaxFilesArg == 3
MaxDepthArg == 3

IndexLimited == \E root \in TreePaths, max_files \in 1..MaxFilesArg :
                    IndexDirectoryRecursiveCall(root, max_files, DEFAULT_MAX_DEPTH)
IndexDeep == \E root \in TreePaths, max_depth \in 0..MaxDepthArg :
                    IndexDirectoryRecursiveCall(root, NoLimit, max_depth)
ForgetTree == \E root \in TreeDirs : db[root].present /\ DeleteMetadataCall(root)

NextLimits == IndexLimited \/ IndexDeep \/ ForgetTree

SpecLimits == InitIndex /\ [][NextLimits]_vars

\* SpecWalk: index_directory_recursive with a limit on the entries, on the
\* tree with two branches; the store forgets a directory between the calls
InitWalk ==
    /\ now = 0
    /\ CacheInit
    /\ PathInit
    /\ fs = FullTree(BranchPaths, BranchDirs)
    /\ db = [p \in BranchPaths |-> NoRow]
    /\ store_ret = NoCall
    /\ WatcherIdle
    /\ MoreIdle

WalkLimited == \E root \in BranchDirs, max_files \in 1..Cardinality(BranchPaths) :
                    IndexDirectoryRecursiveCall(root, max_files, DEFAULT_MAX_DEPTH)
ForgetWalk == \E p \in BranchPaths : db[p].present /\ DeleteMetadataCall(p)

NextWalk == WalkLimited \/ ForgetWalk

SpecWalk == InitWalk /\ [][NextWalk]_vars

\* SpecFailing: index_directory_recursive on the tree while index_file raises
\* for some of the entries below the root; a file vanishes and comes back
\* between the calls
FailingEntries == { <<"/", "r", "/", "f">>, <<"/", "r", "/", "s">>, <<"/", "r", "/", "s", "/", "g">> }
IndexFailing == \E root \in { <<"/", "r">>, <<"/", "r", "/", "s">> }, max_depth \in 1..MaxDepthArg,
                   bad \in SUBSET FailingEntries :
                    root \notin bad /\ IndexWalkCall(root, max_depth, bad)

VanishEntry == ExtRemove(<<"/", "r", "/", "s", "/", "g">>)
ComeBackEntry == ExtCreate(<<"/", "r", "/", "s", "/", "g">>)

NextFailing == IndexFailing \/ ForgetTree \/ VanishEntry \/ ComeBackEntry

SpecFailing == InitIndex /\ [][NextFailing]_vars

\* SpecRequests: write_file, edit_file and read_file requests only, each
\* running from one await to the next with the others in between.
NextRequests ==
    \/ WriteBegins \/ WriteDisks \/ WriteEnds \/ ReadBegins \/ ReadEnds
    \/ EditBegins \/ EditReads \/ EditDisks \/ EditEnds

SpecRequests == InitFiles /\ [][NextRequests]_vars

\* SpecPasses: one directory is watched and unwatched; its delayed scans, the
\* loop and scan requests index it.
WatchPasses == WatchPass /\ UNCHANGED <<now, notIndexingVars>>
UnwatchPasses == UnwatchPass /\ UNCHANGED <<now, notIndexingVars>>
ScanStarts == \E t \in ScanIds : ScanStart(t) /\ UNCHANGED <<now, notIndexingVars>>
ScanAcquires == \E t \in ScanIds : ScanAcquire(t) /\ UNCHANGED <<now, notIndexingVars>>
ScanWakes == \E t \in ScanIds : ScanWake(t) /\ UNCHANGED <<now, notIndexingVars>>
ScanEnds == \E t \in ScanIds : ScanEnd(t) /\ UNCHANGED <<now, notIndexingVars>>
NotifyDirs == NotifyDir /\ UNCHANGED <<now, notIndexingVars>>
Elapses == Elapse /\ UNCHANGED <<now, notIndexingVars>>
LoopPendingBegins == LoopPendingBegin /\ UNCHANGED <<now, notIndexingVars>>
LoopPendingEnds == LoopPendingEnd /\ UNCHANGED <<now, notIndexingVars>>
LoopScanBegins == LoopScanBegin /\ UNCHANGED <<now, notIndexingVars>>
LoopScanEnds == LoopScanEnd /\ UNCHANGED <<now, notIndexingVars>>
ApiScanBegins == \E force \in BOOLEAN : ApiScanBegin(force) /\ UNCHANGED <<now, notIndexingVars>>
ApiScanEnds == ApiScanEnd /\ UNCHANGED <<now, notIndexingVars>>
ApiPendingEnds == ApiPendingEnd /\ UNCHANGED <<now, notIndexingVars>>

NextPasses ==
    \/ WatchPasses \/ UnwatchPasses \/ ScanStarts \/ ScanAcquires \/ ScanWakes \/ ScanEnds
    \/ NotifyDirs \/ Elapses \/ LoopPendingBegins \/ LoopPendingEnds
    \/ LoopScanBegins \/ LoopScanEnds \/ ApiScanBegins \/ ApiScanEnds \/ ApiPendingEnds

SpecPasses == Init /\ [][NextPasses]_vars

\* SpecMatcher: the singleton matcher is constructed with the ignore file
\* there or missing; the file is written and removed, the patterns are
\* reloaded and should_ignore is asked about each path.
InitMatcher ==
    /\ now = 0
    /\ CacheInit
    /\ PathInit
    /\ StoreIdle
    /\ WatcherIdle
    /\ search = NoSearch
    /\ life = NoLife
    /\ sess = NoSessions
    /\ fileop = NoFileOps
    /\ matcher = NoAnswer
    /\ \/ default_matcher = Constructed(FALSE, <<>>)
       \/ \E lines \in LoaderFiles : default_matcher = Constructed(TRUE, lines)
    /\ indexing = NoIndexing

WriteIgnoreFiles == \E lines \in LoaderFiles : WriteIgnoreFile(lines) /\ UNCHANGED <<now, notLoadVars>>
RemoveIgnoreFiles == RemoveIgnoreFile /\ UNCHANGED <<now, notLoadVars>>
ReloadCalls == \E outcome \in LoadOutcomes : ReloadCall(outcome) /\ UNCHANGED <<now, notLoadVars>>
DefaultShouldIgnores == \E path \in LoaderPaths : DefaultShouldIgnore(path) /\ UNCHANGED <<now, notLoadVars>>

NextMatcher == WriteIgnoreFiles \/ RemoveIgnoreFiles \/ ReloadCalls \/ DefaultShouldIgnores

SpecMatcher == InitMatcher /\ [][NextMatcher]_vars

\* SpecPath: the path sandbox, with the links changing underneath it
NextPath == NormalizeAny \/ RelinkAny \/ ClearMemo

SpecPath == Init /\ [][NextPath]_vars

(***************************************************************************)
(* Claims about the path sandbox                                           *)
(***************************************************************************)

\* The string s is an allowed root or lies beneath one
InsideSomeRoot(s) ==
    \E i \in DOMAIN ALLOWED_DIRECTORIES :
        \/ s = ALLOWED_DIRECTORIES[i]
        \/ StartsWith(s, ALLOWED_DIRECTORIES[i] \o <<"/">>)

\* C1: a call of normalize_path(P) that is not answered from the memo returns
\* the fully resolved absolute form of P if and only if that form is an allowed
\* root or beneath one, fails with the RuntimeError of pathlib when P runs
\* through a symlink loop, and fails with 403 in every other case; a call
\* answered from the memo returns the path memoized by the earlier successful
\* call; every path returned is an allowed root or beneath one.
C1_Sandbox ==
    [][\A p \in PathArgs :
        NormalizePath(p) =>
            /\ path_ret'.kind = "path" => InsideSomeRoot(path_ret'.path)
            /\ IF path_memo[p] # NoMemo
               THEN path_ret'.kind = "path" /\ path_ret'.path = path_memo[p]
               ELSE LET r == Resolve(ExpandUser(p), links)
                        inside == r.ok /\ InsideSomeRoot(PathStr(r.path))
                    IN  /\ (path_ret'.kind = "path") <=> inside
                        /\ inside => path_ret'.path = PathStr(r.path)
                        /\ (r.ok /\ ~inside) => path_ret'.kind = "403"
                        /\ ~r.ok => path_ret'.kind = "RuntimeError"]_vars

\* C1's case: '/r/../o' has just been refused with 403, '/r/s/../f' was
\* resolved through the link and its '..' to '/r/f', and '/rx' was never
\* accepted.
C1_Witness ==
    /\ path_ret.arg = <<"/", "r", "/", ".", ".", "/", "o">>
    /\ path_ret.kind = "403"
    /\ path_memo[<<"/", "r", "/", "s", "/", ".", ".", "/", "f">>] = <<"/", "r", "/", "f">>
    /\ path_memo[<<"/", "r">>] = <<"/", "r">>
    /\ path_memo[<<"/", "r", "x">>] = NoMemo

\* C1 as stated: every call returns if and only if the resolved form of P is
\* now an allowed root or beneath one, and fails with 403 otherwise.
C1_AsStated ==
    [][\A p \in PathArgs :
        NormalizePath(p) =>
            LET r == Resolve(ExpandUser(p), links)
                inside == r.ok /\ InsideSomeRoot(PathStr(r.path))
            IN  /\ (path_ret'.kind = "path") <=> inside
                /\ ~inside => path_ret'.kind = "403"]_vars

(***************************************************************************)
(* Claims about the metadata store and the indexer                         *)
(***************************************************************************)

C7_ForcedScanRemoves ==
    [][\A p \in WatchPaths :
          (/\ db[p].present
           /\ Kind(fs, p) = "none"
           /\ \E d \in watched_directories : p = d \/ Beneath(p, d)
           /\ db'[p].present)
          => ~\E path \in {NoPath, WatchedDir} : ScanWatchedDirectoriesCall(path, TRUE)]_vars

\* C7 witness: a forced scan has returned and took two records out of the
\* store, those of the removed /r/s and /r/s/g; the record of /r is there.
C7_Witness ==
    /\ store_ret.op = "scan_watched_directories"
    /\ store_ret.kind = "return"
    /\ store_ret.ret = TRUE
    /\ store_ret.count = 2
    /\ Kind(fs, <<"/", "r", "/", "s">>) = "none"
    /\ ~db[<<"/", "r", "/", "s">>].present
    /\ ~db[<<"/", "r", "/", "s", "/", "g">>].present
    /\ db[<<"/", "r">>].present

\* C11: on a table that does not change, the pages search_metadata returns
\* for one filter and limit L at the offsets 0, L, 2L, ... hold no record
\* twice, hold matching records only, are full but for the last one, and
\* hold every matching record once the last page has come.
C11_PagesPartition ==
    LET pages == search.pages
        matching == { p \in DOMAIN db : Matches(db, p, search.filter) }
        held == { pages[i][j] : <<i, j>> \in { ij \in (DOMAIN pages) \X (1..Cardinality(SearchRows)) :
                                                ij[2] <= Len(pages[ij[1]]) } }
    IN  /\ \A i, k \in DOMAIN pages : \A j \in DOMAIN pages[i], l \in DOMAIN pages[k] :
              pages[i][j] = pages[k][l] => (i = k /\ j = l)
        /\ held \subseteq matching
        /\ \A i \in DOMAIN pages : i < Len(pages) => Len(pages[i]) = search.limit
        /\ (search.done /\ pages # <<>>) => held = matching

\* C11 witness: five records were paged through with L = 2, in pages of 2, 2
\* and 1, in an order that is not the order of the paths.
C11_Witness ==
    /\ search.done
    /\ search.limit = 2
    /\ Len(search.pages) = 3
    /\ Len(search.pages[1]) = 2
    /\ Len(search.pages[2]) = 2
    /\ Len(search.pages[3]) = 1
    /\ search.pages[3][1] = <<"/", "a">>

\* C12: two watch_directory calls for one directory that overlap start at
\* most one delayed_recursive_scan task.
C12_OneScanTask == life.overlapped => life.scans <= 1

\* C13: at most one _watcher_loop task is alive at any time.
C13_OneLoopTask == LiveTasks(life) <= 1

\* C14: whatever the interleaving of index_file and delete_metadata calls
\* in different sessions, no two records of the store have the same path.
C14_OneRecordPerPath ==
    \A r, q \in sess.rows : r.path = q.path => r = q

\* C14: two index_file calls for one new path both found no row; the first
\* commit inserted it, the second was refused.
C14_Witness ==
    /\ sess.session[1].ret = "row"
    /\ sess.session[2].ret = "IntegrityError"
    /\ sess.session[1].path = sess.session[2].path
    /\ RowIds(sess.rows, sess.session[1].path) # {}

\* C15: once unwatch_directory has removed the last watched directory the
\* watcher returns to idle, unless a directory is watched again: the flag
\* goes down, no loop task is left and the stop is over.
C15_ReturnsToIdle ==
    (life.watched_directories = {}) ~> (LifeIdle(life) \/ life.watched_directories # {})

\* C15: unwatch_directory has removed the last directory while a task ran
\* the loop, and awaits the task it cancelled.
C15_Witness ==
    /\ life.watched_directories = {}
    /\ life.stop_await # NoTask
    /\ life.task[life.stop_await] = "alive_cancel"

\* C16: when a directory stays watched and stop_watcher is not called on
\* its own, a loop is in the end running for good.
C16_KeepsRunning ==
    <>[](life.watched_directories # {}) => <>[]LifeRunning(life)

\* C16: a watch_directory call began while unwatch_directory awaited the
\* loop it cancelled, and a loop runs again.
C16_Witness ==
    /\ life.overlapped_stop
    /\ life.stop_await = NoTask
    /\ LifeRunning(life)

\* C22: a call of index_directory_recursive with max_files >= 1 returns a
\* count of at most max_files and adds at most max_files rows.
C22_WithinLimit ==
    [][\A root \in TreePaths, max_files \in 1..MaxFilesArg :
        IndexDirectoryRecursiveCall(root, max_files, DEFAULT_MAX_DEPTH) =>
            /\ store_ret'.count <= max_files
            /\ Cardinality(Rows(db') \ Rows(db)) <= max_files]_vars

C24_OnePassAtATime == Cardinality(Passes(indexing)) <= 1

\* No request of the file operations is under way
FilesQuiet == fileop.w.pc = "idle" /\ fileop.r.pc = "idle" /\ fileop.e.pc = "idle"

\* C25: once every request has completed, a cache hit for a file at its
\* modification time on disk returns the content the file has on disk.
C25_HitIsDiskContent ==
    FilesQuiet =>
        \A p \in DiskPaths :
            (fileop.disk[p].kind = "file" /\ CacheHit(fileop.cache, p, fileop.disk[p].mtime))
                => fileop.cache[p].content = fileop.disk[p].content

\* C26: no path occurs more than once in path_change_queue.
C26_QueuedOnce ==
    \A i, j \in DOMAIN path_change_queue :
        i # j => path_change_queue[i] # path_change_queue[j]

\* C27: path_change_queue never holds more than QUEUE_MAXLEN paths; a
\* notify_change that enqueues returns, and into a full queue it drops the
\* oldest path and keeps the new one.
C27_BoundedDropOldest ==
    [][/\ Len(path_change_queue') <= QUEUE_MAXLEN
       /\ \A p \in ComingAndGoing :
            (NotifyChangeCall(p) /\ p \notin modified_paths) =>
                /\ store_ret'.kind = "return"
                /\ path_change_queue' =
                        IF Len(path_change_queue) = QUEUE_MAXLEN
                        THEN Append(Tail(path_change_queue), p)
                        ELSE Append(path_change_queue, p)]_vars

\* C27: notify_change has enqueued a path into a full queue: the queue is
\* still full and the path is its newest item.
C27_Witness ==
    /\ store_ret.op = "notify_change"
    /\ ~store_ret.ret
    /\ store_ret.count = QUEUE_MAXLEN
    /\ Len(path_change_queue) = QUEUE_MAXLEN
    /\ path_change_queue[QUEUE_MAXLEN] = store_ret.path

\* C28: file_cache_size equals the sum of the sizes of the entries held.
C28_SizeIsSum == file_cache_size = SumSizes(file_cache)

\* C29: a put that evicts removes the least recently used entries first: an
\* entry it removes is never survived by an entry of the same access_count
\* whose last access is older, nor by an entry of the same last access whose
\* access_count is lower.
C29_LeastRecentFirst ==
    [][(/\ cache_ret'.op = "add"
        /\ cache_ret'.kind = "True"
        /\ last_cache_cleanup' = last_cache_cleanup)
       => \A i, j \in DOMAIN file_cache :
            (/\ file_cache[i].path \notin CacheKeys(file_cache')
             /\ \E k \in DOMAIN file_cache' : file_cache'[k] = file_cache[j])
            => /\ ~(/\ file_cache[j].access_count = file_cache[i].access_count
                    /\ file_cache[j].last_access < file_cache[i].last_access)
               /\ ~(/\ file_cache[j].last_access = file_cache[i].last_access
                    /\ file_cache[j].access_count < file_cache[i].access_count)]_vars

\* C30: within one cycle of the loop the queue is drained first, the pending
\* set is processed next and the periodic full scan comes last, each step
\* ended before the next begins: the loop moves from the test of the loop to
\* the queue, from the queue to the pending set, from there to the scan and
\* from the scan back to the test; only the step at the pending set takes
\* paths out of modified_paths and only the step at the scan runs the scan.
C30_CycleOrder ==
    [][/\ loop'.pc # loop.pc
          => <<loop.pc, loop'.pc>> \in { <<"top", "queue">>, <<"queue", "modified">>,
                                        <<"modified", "scan">>, <<"scan", "top">>,
                                        <<"top", "none">> }
       /\ Len(path_change_queue') < Len(path_change_queue)
          => loop.pc \in {"queue", "modified"}
       /\ ~(modified_paths \subseteq modified_paths')
          => loop.pc = "modified" /\ loop'.pc = "scan"
       /\ last_scan_times' # last_scan_times
          => loop.pc = "scan" /\ loop'.pc = "top"]_vars

\* C30: a cycle has drained the queue and emptied the pending set, the store
\* holds a notified path, and the full scan of the cycle is about to start.
C30_Witness ==
    /\ loop.pc = "scan"
    /\ loop.cycles = 0
    /\ path_change_queue = <<>>
    /\ modified_paths = {}
    /\ store_ret.op = "notify_change"
    /\ db[store_ret.path].present

\* C31: the full scan of every SCAN_EVERY-th cycle reconciles every watched
\* directory, whenever it was last scanned: after the step no record is left
\* for a path that is a watched directory or beneath one and is not on disk.
C31_EveryWatchedReconciled ==
    [][(loop.pc = "scan" /\ loop.cycles = 0 /\ loop'.pc = "top")
       => \A p \in WatchPaths :
            (/\ Kind(fs, p) = "none"
             /\ \E d \in watched_directories : p = d \/ Beneath(p, d))
            => ~db'[p].present]_vars

\* C32: an exception raised by a step of a cycle never ends the loop: the
\* loop logs it and is at the test of its next cycle with the flag as it was.
\* The task leaves the loop only by its cancellation or by the test of the
\* loop, and a cancellation lowers the flag and is not logged as an error.
C32_ErrorsDoNotStop ==
    [][/\ (store_ret'.op = "_watcher_loop" /\ ~store_ret'.ret /\ store_ret' # store_ret)
          => /\ loop'.pc = "top"
             /\ store_ret'.count = 0
             /\ watcher_running' = watcher_running
       /\ (loop.pc # "none" /\ loop'.pc = "none")
          => \/ /\ store_ret'.op = "_watcher_loop"
                /\ store_ret'.ret
                /\ store_ret'.kind = "info"
                /\ ~watcher_running'
             \/ /\ loop.pc = "top"
                /\ ~(watcher_running /\ watched_directories # {})]_vars

\* C32: a step of the loop raised while the queue held a path, the loop
\* logged the error, and the loop is in a later cycle draining the queue.
C32_Witness ==
    /\ store_ret.op = "_watcher_loop"
    /\ store_ret.kind = "error"
    /\ store_ret.count = 0
    /\ loop.pc = "modified"
    /\ watcher_running
    /\ \E p \in WatchPaths : p # WatchedDir /\ db[p].present

\* C32: the task was cancelled: the loop is over, the flag is down and the
\* log holds no error.
C32_Cancelled ==
    /\ store_ret.op = "_watcher_loop"
    /\ store_ret.kind = "info"
    /\ store_ret.ret
    /\ loop.pc = "none"
    /\ ~watcher_running

\* C33: no notification is lost to a held lock: a pending directory whose
\* indexing lock is held when the loop processes the pending set is skipped by
\* that pass and is still in modified_paths after it.
C33_LockedStaysPending ==
    [][\A d \in WatchDirs :
          (/\ d \in modified_paths
           /\ Kind(fs, d) = "dir"
           /\ IndexingLocked(d)
           /\ loop.pc = "modified"
           /\ loop'.pc = "scan")
          => d \in modified_paths']_vars

\* C34: after index_file has returned for a path, the is_directory flag of
\* its record tells what the path is on disk.
C34_FlagAgreesWithDisk ==
    (store_ret.op = "index_file" /\ store_ret.ret /\ store_ret.fs = fs)
    => db[store_ret.path].is_directory = (fs[store_ret.path].kind = "dir")

\* C35: after delete_metadata(p) has returned for a path p that is no longer
\* on disk, the store holds no record for p and none for a path beneath p.
C35_NothingLeftBeneath ==
    (/\ store_ret.op = "delete_metadata"
     /\ store_ret.fs = fs
     /\ Kind(fs, store_ret.path) = "none")
    => \A q \in StorePaths :
          (q = store_ret.path \/ Beneath(q, store_ret.path)) => ~db[q].present

\* C36: every record the watcher creates or updates is for a path that is a
\* watched directory or beneath one at that moment.
C36_WritesUnderWatched ==
    [][\A p \in WatchPaths :
          (db'[p].present /\ db'[p] # db[p])
          => \E d \in watched_directories : p = d \/ Beneath(p, d)]_vars

C38_ShallowerFirst ==
    [][\A root \in BranchDirs, max_files \in 1..Cardinality(BranchPaths) :
        (/\ IndexDirectoryRecursiveCall(root, max_files, DEFAULT_MAX_DEPTH)
         /\ \A p \in Rows(db) : p # root /\ ~Beneath(p, root)) =>
            \A p, q \in BranchPaths :
                (/\ Beneath(p, root) /\ Beneath(q, root)
                 /\ RelDepth(q, root) < RelDepth(p, root)
                 /\ db'[p].present)
                => db'[q].present]_vars

\* C39 as stated: a cleanup_cache that scans removes exactly the entries
\* whose file is gone, whose file is newer on disk than recorded, or whose
\* last access is older than the staleness window, and keeps the others.
C39_AsStated ==
    [][\A disk \in [CacheKeys(file_cache) -> ExistsObs] :
        (/\ CleanupCacheCall(disk)
         /\ now - last_cache_cleanup >= CACHE_CLEANUP_INTERVAL) =>
            file_cache' = SelectSeq(file_cache, LAMBDA e :
                ~(\/ disk[e.path].state = "gone"
                  \/ (disk[e.path].state = "file" /\ disk[e.path].mtime > e.modified_time)
                  \/ now - e.last_access > CACHE_STALE_AFTER))]_vars

\* C39, where exists() answers for every entry: a cleanup_cache that scans
\* removes exactly the entries whose file is gone, whose stat fails, whose
\* file is newer on disk than recorded, or whose last access is older than
\* the staleness window; it keeps the others as they were and lowers the
\* size counter by the sizes of those removed.
C39_CleanupExact ==
    [][\A disk \in [CacheKeys(file_cache) -> ExistsObs] :
        (/\ CleanupCacheCall(disk)
         /\ ~CleanupRaises(disk)
         /\ now - last_cache_cleanup >= CACHE_CLEANUP_INTERVAL) =>
            /\ file_cache' = SelectSeq(file_cache, LAMBDA e :
                    ~(\/ disk[e.path].state \in {"gone", "error"}
                      \/ (disk[e.path].state = "file" /\ disk[e.path].mtime > e.modified_time)
                      \/ now - e.last_access > CACHE_STALE_AFTER))
            /\ file_cache_size' = file_cache_size - (SumSizes(file_cache) - SumSizes(file_cache'))]_vars

\* C39: a cleanup_cache has scanned a cache of two entries, removed the one
\* last accessed before the staleness window and kept the other.
C39_Witness ==
    /\ cache_ret.op = "cleanup"
    /\ cache_ret.kind = "scanned"
    /\ Len(cache_ret.removed) = 1
    /\ Len(file_cache) = 1
    /\ now - file_cache[1].last_access <= CACHE_STALE_AFTER
    /\ now = MaxCleanupTime

\* C39: a due cleanup_cache ended with the PermissionError of exists() and
\* removed nothing.
C39_Raised ==
    /\ cache_ret.op = "cleanup"
    /\ cache_ret.kind = "PermissionError"
    /\ cache_ret.removed = <<>>
    /\ Len(file_cache) = 2

\* C40: notify_change(p) for a directory p that is not pending puts p and
\* every ancestor of p in modified_paths and nothing else, and appends p
\* alone to path_change_queue (a full queue giving up its oldest item); for
\* a p that is pending already it changes neither the set nor the queue.
C40_AncestorsPendingNotQueued ==
    [][\A p \in ComingAndGoing :
        NotifyChangeCall(p) =>
            IF p \in modified_paths
            THEN /\ modified_paths' = modified_paths
                 /\ path_change_queue' = path_change_queue
            ELSE Kind(fs, p) = "dir" =>
                 /\ modified_paths' =
                        modified_paths \cup {p}
                            \cup { a \in WatchPaths : a = <<"/">> \/ Beneath(p, a) }
                 /\ path_change_queue' =
                        IF Len(path_change_queue) < QUEUE_MAXLEN
                        THEN Append(path_change_queue, p)
                        ELSE Append(Tail(path_change_queue), p)
                 /\ Len(path_change_queue') <= Len(path_change_queue) + 1
                 /\ \A a \in WatchPaths : (a = <<"/">> \/ Beneath(p, a)) =>
                        \A i \in DOMAIN path_change_queue' :
                            path_change_queue'[i] = a =>
                                \E j \in DOMAIN path_change_queue :
                                    path_change_queue[j] = a]_vars

\* C40: the directory /r/s was notified while nothing was pending: it and
\* its ancestors /r and / are pending and the queue holds /r/s alone.
C40_Witness ==
    /\ store_ret.op = "notify_change"
    /\ store_ret.path = <<"/", "r", "/", "s">>
    /\ store_ret.ret = FALSE
    /\ store_ret.count = 0
    /\ Kind(fs, <<"/", "r", "/", "s">>) = "dir"
    /\ modified_paths = { <<"/">>, <<"/", "r">>, <<"/", "r", "/", "s">> }
    /\ path_change_queue = << <<"/", "r", "/", "s">> >>

\* C40: a directory that is pending already was notified again and the
\* queue is as it was, without it.
C40_Repeated ==
    /\ store_ret.op = "notify_change"
    /\ store_ret.path = <<"/", "r", "/", "s">>
    /\ store_ret.ret = TRUE
    /\ Kind(fs, <<"/", "r", "/", "s">>) = "dir"
    /\ <<"/", "r", "/", "s">> \in modified_paths
    /\ \A i \in DOMAIN path_change_queue : path_change_queue[i] # <<"/", "r", "/", "s">>

\* C21: after a load that found the ignore file missing the matcher holds
\* no pattern of an ignore file, and should_ignore answers True for every
\* path with a segment among common_ignored_dirs.
C21_MissingFileLoadsNothing ==
    /\ default_matcher.loaded = "missing" => CustomPatterns(default_matcher.patterns) = {}
    /\ (/\ default_matcher.ret # "None"
        /\ \E g \in SeqToSet(Segments(default_matcher.path, <<>>)) :
               g \in SeqToSet(common_ignored_dirs))
       => default_matcher.ret = "True"

\* A step in which write_file, having invalidated the cache entry of the
\* path, ends with an error
WriteFileFails ==
    /\ fileop.w.pc = "disk"
    /\ fileop'.done = fileop.done + 1
    /\ fileop'.ret.op = "write_file"
    /\ fileop'.ret.status = "error"

\* C17 as stated: when write_file has invalidated the cache entry of a path
\* and the write to disk fails, the handler ends with an error and the
\* cache holds no entry for the path.
C17_AsStated ==
    [][WriteFileFails => ~fileop'.cache[fileop.w.path].set]_vars

\* C17: write_file removes the cache entry of the path before it writes,
\* and when the write to disk then fails it ends with an error and leaves
\* the cache as it is, neither restoring the entry nor inserting one: the
\* cache then holds no entry for the path but one that another request
\* cached since the invalidation.
C17_NoRestoreNoInsert ==
    [][/\ (fileop.w.pc = "idle" /\ fileop'.w.pc = "disk") => ~fileop'.cache[fileop'.w.path].set
       /\ WriteFileFails =>
             /\ fileop'.cache = fileop.cache
             /\ fileop'.cache[fileop.w.path].set => fileop.w.refilled]_vars

\* C17: a write_file whose path had a cache entry has failed, and the path
\* has no entry.
C17_Witness ==
    /\ fileop.ret.op = "write_file"
    /\ fileop.ret.status = "error"
    /\ fileop.ret.had_entry
    /\ ~fileop.cache[fileop.ret.path].set

\* C18: when an edit's oldText is not found in the content the preceding
\* edits of the request produced, edit_file ends with an error, leaves the
\* disk as it is and has written nothing.
C18_AllOrNothing ==
    [][(/\ fileop.e.pc \in { "idle", "read" }
        /\ fileop'.done = fileop.done + 1
        /\ fileop'.ret.op = "edit_file"
        /\ fileop'.ret.missing)
       => /\ fileop'.ret.status = "error"
          /\ fileop'.disk = fileop.disk
          /\ ~fileop.e.wrote]_vars

\* C18: a request of two edits, the first of which applies and the second
\* of which does not, has ended with an error.
C18_Witness ==
    /\ fileop.ret.op = "edit_file"
    /\ fileop.ret.missing
    /\ fileop.ret.status = "error"
    /\ fileop.ret.applied = 1
    /\ fileop.disk[fileop.ret.path].kind = "file"

\* C19: a step in which write_file creates a file, create_directory creates
\* a directory or move_path renames a path leaves the memo of normalize_path
\* empty.
C19_MemoCleared ==
    [][(/\ fileop'.done = fileop.done + 1
        /\ fileop'.ret.op \in { "write_file", "create_directory", "move_path" }
        /\ fileop'.ret.status = "ok"
        /\ fileop'.ret.created)
       => \A p \in PathArgs : path_memo'[p] = NoMemo]_vars

\* C20: a path with no commonly ignored directory name among its segments
\* that matches a negation line and a positive line of the ignore file is not
\* ignored, whichever of the two lines comes first.
C20_NegationWins ==
    (/\ matcher.ret # "None"
     /\ ~\E g \in SeqToSet(Segments(matcher.path, <<>>)) : g \in SeqToSet(common_ignored_dirs)
     /\ \E i \in DOMAIN matcher.lines :
            IsNegation(matcher.lines[i]) /\ FnMatch(matcher.path, Tail(matcher.lines[i]))
     /\ \E i \in DOMAIN matcher.lines :
            ~IsNegation(matcher.lines[i]) /\ FnMatch(matcher.path, matcher.lines[i]))
    => matcher.ret = "False"

\* C20: the file has the negation line first and the positive line after
\* it, the path matches both, and should_ignore returned false.
C20_Witness ==
    /\ matcher.ret = "False"
    /\ Len(matcher.lines) = 2
    /\ IsNegation(matcher.lines[1])
    /\ FnMatch(matcher.path, Tail(matcher.lines[1]))
    /\ ~IsNegation(matcher.lines[2])
    /\ FnMatch(matcher.path, matcher.lines[2])

\* C8: delete_metadata(p) on a path that has a directory row removes the row
\* of p and every row whose path starts with p + '/', removes no row whose
\* path starts with p without being p or beneath it, and returns true.
C8_DeleteCascade ==
    [][\A p \in StorePaths :
        (DeleteMetadataCall(p) /\ db[p].present /\ db[p].is_directory) =>
            /\ store_ret'.ret = TRUE
            /\ ~db'[p].present
            /\ \A q \in StorePaths :
                IF StartsWith(q, p \o <<"/">>)
                THEN ~db'[q].present
                ELSE (q # p /\ StartsWith(q, p)) => db'[q] = db[q]]_vars

\* C9 as stated: no call of index_directory_recursive creates a row for a
\* directory the matcher ignores or for a path beneath such a directory.
C9_AsStated ==
    [][\A root \in TreePaths :
        IndexDirectoryRecursiveCall(root, NoLimit, DEFAULT_MAX_DEPTH) =>
            \A d \in TreePaths, q \in Rows(db') \ Rows(db) :
                (fs[d].kind = "dir" /\ ShouldIgnore(d)) => ~(q = d \/ Beneath(q, d))]_vars

\* C9: no call of index_directory_recursive creates a row for a path the
\* matcher ignores; and a call whose root is an ignored directory or one of
\* its ancestors leaves the ignored directory and everything beneath it
\* without a new row and with its rows untouched (the subtree is pruned).
C9_IgnoredPruned ==
    [][\A root \in TreePaths :
        IndexDirectoryRecursiveCall(root, NoLimit, DEFAULT_MAX_DEPTH) =>
            /\ \A q \in Rows(db') \ Rows(db) : ~ShouldIgnore(q)
            /\ \A d \in TreePaths :
                (fs[d].kind = "dir" /\ ShouldIgnore(d) /\ (root = d \/ Beneath(d, root))) =>
                    \A q \in TreePaths : (q = d \/ Beneath(q, d)) => db'[q] = db[q]]_vars

\* C9's case: /r has been indexed, its ignored directories out and l exist
\* on disk with entries beneath them, and only r, f, s and g have rows.
C9_Witness ==
    /\ store_ret.op = "index_directory_recursive"
    /\ store_ret.path = <<"/", "r">>
    /\ store_ret.count = 4
    /\ Rows(db) = { <<"/", "r">>, <<"/", "r", "/", "f">>, <<"/", "r", "/", "s">>, <<"/", "r", "/", "s", "/", "g">> }
    /\ fs[<<"/", "r", "/", "o", "u", "t", "/", "k">>].kind = "file"
    /\ fs[<<"/", "r", "/", "l", "/", "k">>].kind = "dir"

\* C10: a call of index_directory_recursive that follows a call on the same
\* root, with the tree unchanged and no other store call in between, returns
\* the same count, leaves the set of rows and every row's modified_time and
\* size_bytes as they were, and moves no last_indexed backwards.
C10_Idempotent ==
    [][\A root \in TreePaths :
        (/\ IndexDirectoryRecursiveCall(root, NoLimit, DEFAULT_MAX_DEPTH)
         /\ store_ret.op = "index_directory_recursive"
         /\ store_ret.path = root
         /\ store_ret.kind = "return"
         /\ store_ret.fs = fs) =>
            /\ store_ret'.count = store_ret.count
            /\ Rows(db') = Rows(db)
            /\ \A q \in Rows(db) :
                /\ db'[q].modified_time = db[q].modified_time
                /\ db'[q].size_bytes = db[q].size_bytes
                /\ db'[q].last_indexed >= db[q].last_indexed]_vars

(***************************************************************************)
(* Claims about the content cache                                          *)
(***************************************************************************)

K_ab == <<"/", "a", "/", "b">>
K_ab_c == <<"/", "a", "/", "b", "/", "c">>
K_abc == <<"/", "a", "/", "b", "c">>

\* C2: after an accepted add_to_file_cache(p, c, t1) whose entry no later call
\* has removed or replaced, get_from_file_cache(p, t2) returns c if and only
\* if t2 <= t1; when t2 > t1 it returns None, the cache then holds no entry
\* for p, and the size counter has gone down by exactly the size of c.
C2_CacheFreshness ==
    [][\A p \in CachePaths, t2 \in Mtimes :
        (GetFromFileCache(p, t2) /\ put_log[p].set) =>
            LET c == put_log[p].content
                t1 == put_log[p].mtime
            IN  /\ (cache_ret'.kind = "hit" /\ cache_ret'.val = c) <=> (t2 <= t1)
                /\ (t2 > t1) =>
                    /\ cache_ret'.kind = "stale"
                    /\ p \notin CacheKeys(file_cache')
                    /\ file_cache_size' = file_cache_size - EncodedSize(c)]_vars

\* C2's case: a get with a newer modification time has just evicted the entry
\* of an accepted put.
C2_Witness ==
    /\ cache_ret.op = "get"
    /\ cache_ret.kind = "stale"
    /\ cache_ret.path \notin CacheKeys(file_cache)
    /\ file_cache # <<>>

\* C3: in every reachable state the sizes of the cached entries sum to at most
\* FILE_CACHE_MAX_SIZE and there are at most FILE_CACHE_MAX_ENTRIES entries.
C3_CacheBounds ==
    /\ SumSizes(file_cache) <= FILE_CACHE_MAX_SIZE
    /\ Len(file_cache) <= FILE_CACHE_MAX_ENTRIES

\* C3's case: the cache is full after a put, and an earlier put has
\* overwritten a cached path (the counter is ahead of the sum of the sizes).
C3_Witness ==
    /\ cache_ret.op = "add"
    /\ cache_ret.kind = "True"
    /\ Len(file_cache) = FILE_CACHE_MAX_ENTRIES
    /\ file_cache_size = FILE_CACHE_MAX_SIZE
    /\ file_cache_size > SumSizes(file_cache)

\* C4: add_to_file_cache with content of more than FILE_CACHE_ENTRY_MAX_SIZE
\* bytes returns False and changes neither the entries nor the size counter.
C4_OversizedRejected ==
    [][\A p \in CachePaths, c \in Contents, m \in Mtimes :
        (/\ EncodedSize(c) > FILE_CACHE_ENTRY_MAX_SIZE
         /\ \E disk \in DiskViews(c) : AddToFileCache(p, c, m, disk)) =>
            /\ cache_ret'.kind = "False"
            /\ file_cache' = file_cache
            /\ file_cache_size' = file_cache_size
            /\ last_cache_cleanup' = last_cache_cleanup]_vars

\* C4's case: an oversized put has been rejected while the cache held entries.
C4_Witness ==
    /\ cache_ret.op = "add"
    /\ cache_ret.kind = "False"
    /\ Len(file_cache) = FILE_CACHE_MAX_ENTRIES

\* C5: invalidate_cache_for_path(p) removes the entries whose key is p or
\* starts with p followed by "/", and leaves every other entry as it was.
C5_InvalidateExact ==
    [][\A p \in CachePaths :
        InvalidateCacheForPath(p) =>
            \A k \in CachePaths :
                IF k = p \/ (Len(k) > Len(p) /\ SubSeq(k, 1, Len(p) + 1) = p \o <<"/">>)
                THEN k \notin CacheKeys(file_cache')
                ELSE /\ (k \in CacheKeys(file_cache')) <=> (k \in CacheKeys(file_cache))
                     /\ k \in CacheKeys(file_cache) =>
                            CacheEntry(file_cache', k) = CacheEntry(file_cache, k)]_vars

\* C5's case: invalidating /a/b has removed /a/b/c and left /a/bc cached.
C5_Witness ==
    /\ cache_ret.op = "invalidate"
    /\ cache_ret.path = K_ab
    /\ cache_ret.removed = <<K_ab_c>>
    /\ CacheKeys(file_cache) = {K_abc}

====
